---- MODULE Spec2Model ----
(***************************************************************************)
(* Reconciliation engines of eventing-rabbitmq: the Broker reconciler that *)
(* manages its topology through the messaging-topology-operator CRDs       *)
(* (pkg/reconciler/broker), the Broker reconciler that declares it on the  *)
(* RabbitMQ server itself (pkg/reconciler/brokerstandalone) and the        *)
(* Trigger reconciler (pkg/reconciler/trigger).  One Broker and one        *)
(* Trigger are modelled; a pipeline run (ReconcileKind, FinalizeKind) is   *)
(* one atomic action whose store and driver calls are recorded, in order,  *)
(* in the run's log.                                                       *)
(***************************************************************************)
EXTENDS Naturals, Sequences, FiniteSets, TLC

VARIABLES
    broker,     \* the Broker object: spec inputs the pipelines read
    bStatus,    \* the Broker's status: condition slots, reasons, address
    trigger,    \* the Trigger object: spec inputs
    tStatus,    \* the Trigger's status
    store,      \* every managed object, by symbolic identity
    endpoints,  \* whether the ingress Service's endpoints are available
    resolver,   \* which destinations the URI resolver can resolve
    last,       \* what the last pipeline run did (engine, error, call log)
    settled,    \* per engine: "none", or how its last run went ("clean": no call
                \* of it was rejected, else "faulted") when nothing changed since
    edits,      \* disturbances used so far (bounded by MaxEdits)
    rabbit,     \* what is declared on the RabbitMQ server through the driver
    sample,     \* the last evaluation of a builder or of isReady: input, result
    controller  \* the Broker reconciler that is deployed: "broker" (the one using
                \* the operator's CRDs) or "brokerstandalone"

vars == <<broker, bStatus, trigger, tStatus, store, endpoints, resolver, last, settled, edits,
          rabbit, sample, controller>>

(***************************************************************************)
(* Bounds of the model.                                                    *)
(***************************************************************************)
MaxEdits == 1

(***************************************************************************)
(* Names.                                                                  *)
(***************************************************************************)
BrokerConditionExchange       == "ExchangeReady"
BrokerConditionDLX            == "DLXReady"
BrokerConditionDeadLetterSink == "DeadLetterSinkReady"
BrokerConditionSecret         == "SecretReady"
BrokerConditionIngress        == "IngressReady"
BrokerConditionAddressable    == "Addressable"
ConditionReady                == "Ready"

\* The condition types a Broker's status can carry.
BrokerConditions ==
    { BrokerConditionExchange, BrokerConditionDLX, BrokerConditionDeadLetterSink,
      BrokerConditionSecret, BrokerConditionIngress, BrokerConditionAddressable,
      ConditionReady }

\* rabbitBrokerCondSet as it would be with the dead-letter exchange left out of
\* the dependents.
rabbitBrokerCondSet_NoDLX ==
    { BrokerConditionExchange, BrokerConditionDeadLetterSink,
      BrokerConditionSecret, BrokerConditionIngress, BrokerConditionAddressable }

\* The dependents of the Broker's living condition set.
rabbitBrokerCondSet ==
    { BrokerConditionExchange, BrokerConditionDLX, BrokerConditionDeadLetterSink,
      BrokerConditionSecret, BrokerConditionIngress, BrokerConditionAddressable }

TriggerConditionBroker                 == "BrokerReady"
TriggerConditionSubscribed             == "SubscriptionReady"
TriggerConditionDependency             == "DependencyReady"
TriggerConditionSubscriberResolved     == "SubscriberResolved"
TriggerConditionDeadLetterSinkResolved == "DeadLetterSinkResolved"

\* The dependents of the Trigger's living condition set (knative eventing).
triggerCondSet ==
    { TriggerConditionBroker, TriggerConditionSubscribed, TriggerConditionDependency,
      TriggerConditionSubscriberResolved, TriggerConditionDeadLetterSinkResolved }

OperatorKind == "RabbitmqCluster"
BrokerClass  == "RabbitMQBroker"

BrokerName  == "testbroker"
TriggerName == "my-trigger"

\* Errors a run can return ("" is nil).
NotFound         == "not found"
StoreError       == "store error"
ResolveError     == "resolve error"
BindingImmutable == "binding spec differs and it's immutable"

\* Symbolic identities of the managed objects.
BExchange   == "b.exchange"
BDlx        == "b.dlx"
BDlq        == "b.dlq"
BDlqBinding == "b.dlq.binding"
BSecret     == "b.secret"
BIngressDeployment == "b.ingress.deployment"
BIngressService    == "b.ingress.service"
BDispatcher == "b.dlx.dispatcher"
TDlx        == "t.dlx"
TDlq        == "t.dlq"
TDlqBinding == "t.dlq.binding"
TDlxDispatcher == "t.dlx.dispatcher"
TQueue      == "t.queue"
TBinding    == "t.binding"
TDispatcher == "t.dispatcher"

BrokerObjects  == { BExchange, BDlx, BDlq, BDlqBinding, BSecret, BIngressDeployment,
                    BIngressService, BDispatcher }
TriggerObjects == { TDlx, TDlq, TDlqBinding, TDlxDispatcher, TQueue, TBinding, TDispatcher }
Objects        == BrokerObjects \cup TriggerObjects

Exchanges   == { BExchange, BDlx, TDlx }
Queues      == { BDlq, TDlq, TQueue }
Bindings    == { BDlqBinding, TDlqBinding, TBinding }
Deployments == { BIngressDeployment, BDispatcher, TDlxDispatcher, TDispatcher }
RabbitObjects == Exchanges \cup Queues \cup Bindings

(***************************************************************************)
(* Deterministic names (pkg/rabbitmqnaming), as the resource tests show    *)
(* them.                                                                   *)
(***************************************************************************)
BrokerExchangeName(dlx) ==
    IF dlx THEN "b.foobar.testbroker.dlx.broker-test-uid"
    ELSE "b.foobar.testbroker.broker-test-uid"
TriggerDLXExchangeName == "t.foobar.my-trigger.dlx.trigger-test-uid"
CreateBrokerDeadLetterQueueName == "b.foobar.testbroker.dlq.broker-test-uid"
CreateTriggerQueueName == "t.foobar.my-trigger.trigger-test-uid"
CreateTriggerDeadLetterQueueName == "t.foobar.my-trigger.dlq.trigger-test-uid"

(***************************************************************************)
(* Specs of the managed objects and partial-match comparison.              *)
(***************************************************************************)
ZeroRabbitSpec ==
    [ name |-> "", type |-> "", durable |-> FALSE, autoDelete |-> FALSE, vhost |-> "",
      source |-> "", destination |-> "", destinationType |-> "", routingKey |-> "",
      args |-> <<>>, cluster |-> "" ]

ZeroTemplate ==
    [ image |-> "", secret |-> "", queue |-> "", subscriber |-> "", ingressURL |-> "",
      delivery |-> "", dlx |-> FALSE ]
ZeroDeploymentSpec == [ template |-> ZeroTemplate, replicas |-> 0 ]
ZeroSecretSpec  == [ stringData |-> <<>> ]
ZeroServiceSpec == [ ports |-> "", selector |-> "", clusterIP |-> "" ]

ZeroSpec(obj) ==
    IF obj \in RabbitObjects THEN ZeroRabbitSpec
    ELSE IF obj \in Deployments THEN ZeroDeploymentSpec
    ELSE IF obj = BSecret THEN ZeroSecretSpec
    ELSE ZeroServiceSpec

\* An object that is not in the store.
NoObject(obj) == [ present |-> FALSE, owner |-> "", spec |-> ZeroSpec(obj), conds |-> <<>> ]

\* equality.Semantic.DeepDerivative on a string, a bool, a byte slice, a map:
\* a field the first operand leaves at its zero value is ignored.
DerivString(a, b) == a = "" \/ a = b
DerivBool(a, b)   == a = FALSE \/ a = b
DerivBytes(a, b)  == Len(a) = 0 \/ a = b
DerivMap(a, b) ==
    \/ DOMAIN a = {}
    \/ /\ Cardinality(DOMAIN a) = Cardinality(DOMAIN b)
       /\ \A k \in DOMAIN a : k \in DOMAIN b /\ DerivString(a[k], b[k])

DeepDerivativeRabbit(want, current) ==
    /\ DerivString(want.name, current.name)
    /\ DerivString(want.type, current.type)
    /\ DerivBool(want.durable, current.durable)
    /\ DerivBool(want.autoDelete, current.autoDelete)
    /\ DerivString(want.vhost, current.vhost)
    /\ DerivString(want.source, current.source)
    /\ DerivString(want.destination, current.destination)
    /\ DerivString(want.destinationType, current.destinationType)
    /\ DerivString(want.routingKey, current.routingKey)
    /\ DerivBytes(want.args, current.args)
    /\ DerivString(want.cluster, current.cluster)

DeepDerivativeTemplate(want, current) ==
    /\ DerivString(want.image, current.image)
    /\ DerivString(want.secret, current.secret)
    /\ DerivString(want.queue, current.queue)
    /\ DerivString(want.subscriber, current.subscriber)
    /\ DerivString(want.ingressURL, current.ingressURL)
    /\ DerivString(want.delivery, current.delivery)
    /\ DerivBool(want.dlx, current.dlx)

DeepDerivativeService(want, current) ==
    /\ DerivString(want.ports, current.ports)
    /\ DerivString(want.selector, current.selector)
    /\ DerivString(want.clusterIP, current.clusterIP)

(***************************************************************************)
(* Readiness of a topology object from its condition list.                 *)
(***************************************************************************)
RECURSIVE NumTrue(_)
NumTrue(conditions) ==
    IF Len(conditions) = 0 THEN 0
    ELSE (IF Head(conditions) = "True" THEN 1 ELSE 0) + NumTrue(Tail(conditions))

\* isReady as it would be if one True condition were enough.
isReady_AnyTrue(conditions) == NumTrue(conditions) > 0

isReady(conditions) ==
    LET numConditions == Len(conditions)
    IN  IF numConditions = 0 THEN FALSE
        ELSE numConditions - NumTrue(conditions) = 0

(***************************************************************************)
(* The living condition set manager (knative.dev/pkg/apis): a status holds *)
(* one slot per dependent plus the top-level Ready slot.  "" is a slot     *)
(* that was never set.                                                     *)
(***************************************************************************)
NewStatus(types) ==
    [ cond    |-> [ t \in types |-> "" ],
      reason  |-> [ t \in types |-> "" ],
      address |-> "" ]

\* The status the top-level slot takes from the dependents: False first, then
\* Unknown (a slot never set counts as Unknown), else True.
Happiness(st, deps) ==
    IF \E d \in deps : st.cond[d] = "False" THEN "False"
    ELSE IF \E d \in deps : st.cond[d] # "True" THEN "Unknown"
    ELSE "True"

InitializeConditions(st, deps) ==
    LET happy  == IF st.cond[ConditionReady] = "" THEN "Unknown" ELSE st.cond[ConditionReady]
        status == IF happy = "True" THEN "True" ELSE "Unknown"
    IN  [ st EXCEPT !.cond = [ t \in DOMAIN st.cond |->
                                 IF t = ConditionReady THEN happy
                                 ELSE IF st.cond[t] = "" THEN status
                                 ELSE st.cond[t] ] ]

MarkTrueWithReason(st, deps, t, reason) ==
    LET s1 == [ st EXCEPT !.cond[t] = "True", !.reason[t] = reason ]
    IN  [ s1 EXCEPT !.cond[ConditionReady] = Happiness(s1, deps) ]

MarkTrue(st, deps, t) == MarkTrueWithReason(st, deps, t, "")

MarkFalse(st, deps, t, reason) ==
    LET s1 == [ st EXCEPT !.cond[t] = "False", !.reason[t] = reason ]
    IN  IF t \in deps
        THEN [ s1 EXCEPT !.cond[ConditionReady] = "False", !.reason[ConditionReady] = reason ]
        ELSE s1

MarkUnknown(st, deps, t, reason) ==
    LET s1 == [ st EXCEPT !.cond[t] = "Unknown", !.reason[t] = reason ]
    IN  IF \E d \in deps : s1.cond[d] = "False"
        THEN [ s1 EXCEPT !.cond[ConditionReady] = "False" ]
        ELSE IF t \in deps
        THEN [ s1 EXCEPT !.cond[ConditionReady] = "Unknown", !.reason[ConditionReady] = reason ]
        ELSE s1

IsHappy(st) == st.cond[ConditionReady] = "True"

(***************************************************************************)
(* The Broker's status helpers.                                            *)
(***************************************************************************)
MarkExchangeFailed(st, reason) == MarkFalse(st, rabbitBrokerCondSet, BrokerConditionExchange, reason)
MarkExchangeReady(st)          == MarkTrue(st, rabbitBrokerCondSet, BrokerConditionExchange)
MarkDLXFailed(st, reason)      == MarkFalse(st, rabbitBrokerCondSet, BrokerConditionDLX, reason)
MarkDLXReady(st)               == MarkTrue(st, rabbitBrokerCondSet, BrokerConditionDLX)
MarkDeadLetterSinkFailed(st, reason) ==
    MarkFalse(st, rabbitBrokerCondSet, BrokerConditionDeadLetterSink, reason)
MarkDeadLetterSinkReady(st)    == MarkTrue(st, rabbitBrokerCondSet, BrokerConditionDeadLetterSink)
MarkSecretFailed(st, reason)   == MarkFalse(st, rabbitBrokerCondSet, BrokerConditionSecret, reason)
MarkSecretReady(st)            == MarkTrue(st, rabbitBrokerCondSet, BrokerConditionSecret)
MarkIngressFailed(st, reason)  == MarkFalse(st, rabbitBrokerCondSet, BrokerConditionIngress, reason)

PropagateIngressAvailability(st, available) ==
    IF available THEN MarkTrue(st, rabbitBrokerCondSet, BrokerConditionIngress)
    ELSE MarkIngressFailed(st, "EndpointsUnavailable")

SetAddress(st, url) ==
    LET s1 == [ st EXCEPT !.address = url ]
    IN  IF url # "" THEN MarkTrue(s1, rabbitBrokerCondSet, BrokerConditionAddressable)
        ELSE MarkFalse(s1, rabbitBrokerCondSet, BrokerConditionAddressable, "emptyHostname")

(***************************************************************************)
(* The store, as a run sees it.  A run threads a context c through its     *)
(* steps: the store (and the RabbitMQ server, for the driver's calls), the  *)
(* entity's status, the calls made so far, the last                        *)
(* call's result (ret, err) and the injected fault: call number failAt of  *)
(* the run fails (0: none).  A log entry is <<op, object, error, conds>>:   *)
(* the call, the error it returned and the conditions of the object it     *)
(* returned.                                                               *)
(***************************************************************************)
NewContext(st, failAt) ==
    [ store |-> store, rabbit |-> rabbit, st |-> st, log |-> <<>>, err |-> "",
      ret |-> NoObject(BExchange), sent |-> NoObject(BExchange),
      failAt |-> IF failAt = 0 THEN {} ELSE { failAt }, hit |-> FALSE, goneAt |-> 0 ]

\* The next call of the run is one of those that fail.
Fails(c) == (Len(c.log) + 1) \in c.failAt

\* The outcome of a call: its error and result, and its entry in the log.
Call(c, op, obj, err, ret) ==
    [ c EXCEPT !.log = Append(@, <<op, obj, err, ret.conds>>), !.hit = @ \/ Fails(c),
               !.err = err, !.ret = ret ]

\* What the API server adds to a spec it stores: CRD defaults, an assigned IP.
ServerDefaults(obj, spec) ==
    IF obj \in Exchanges \cup Queues
    THEN [ spec EXCEPT !.vhost = IF @ = "" THEN "/" ELSE @ ]
    ELSE IF obj = BIngressService
    THEN [ spec EXCEPT !.clusterIP = IF @ = "" THEN "10.0.0.1" ELSE @ ]
    ELSE spec

ListerGet(c, obj) ==
    IF Fails(c) THEN Call(c, "get", obj, StoreError, NoObject(obj))
    ELSE IF ~c.store[obj].present THEN Call(c, "get", obj, NotFound, NoObject(obj))
    ELSE Call(c, "get", obj, "", c.store[obj])

Create(c, obj, want) ==
    LET created == [ want EXCEPT !.spec = ServerDefaults(obj, want.spec) ]
    IN  IF Fails(c) THEN Call(c, "create", obj, StoreError, NoObject(obj))
        ELSE [ Call(c, "create", obj, "", created) EXCEPT !.store[obj] = created ]

\* sent keeps the object handed to the client: the copy of the stored object
\* the reconciler changed.
Update(c, obj, desired) ==
    LET updated == [ desired EXCEPT !.spec = ServerDefaults(obj, desired.spec) ]
    IN  IF Fails(c)
        THEN [ Call(c, "update", obj, StoreError, NoObject(obj)) EXCEPT !.sent = desired ]
        ELSE [ Call(c, "update", obj, "", updated) EXCEPT !.store[obj] = updated,
                                                          !.sent = desired ]

Delete(c, obj) ==
    IF Fails(c) THEN Call(c, "delete", obj, StoreError, NoObject(obj))
    ELSE [ Call(c, "delete", obj, "", NoObject(obj)) EXCEPT !.store[obj] = NoObject(obj) ]

\* The end of a run: the error it returns.
Return(c, err) == [ c EXCEPT !.err = err ]

(***************************************************************************)
(* Desired-state builders.                                                 *)
(***************************************************************************)
Clusters == { "rabbit", "rabbit-2" }
RabbitMQURL(cluster) == IF cluster = "rabbit" THEN "amqp://rabbit" ELSE "amqp://rabbit-2"

IngressImage     == "ingress-image"
DispatcherImage  == "dispatcher-image"
SecretName       == "testbroker-broker-rabbit"
BrokerURLSecretKey == "brokerURL"
IngressHostname  == "http://testbroker-broker-ingress.foobar.svc.cluster.local"
BrokerDLSURI     == "http://broker-dls.foobar.svc.cluster.local"
TriggerDLSURI    == "http://trigger-dls.foobar.svc.cluster.local"
SubscriberURI    == "http://subscriber.foobar.svc.cluster.local"

\* A delivery spec: none, one without a dead-letter sink, one with.
Deliveries == { "none", "retry", "dls" }
HasDeadLetterSink(delivery) == delivery = "dls"

Desired(spec) == [ present |-> TRUE, owner |-> "", spec |-> spec, conds |-> <<>> ]

\* A desired object with its controller reference: the kind of its owner.
Owned(kind, spec) == [ Desired(spec) EXCEPT !.owner = kind ]

\* json.Marshal of a string map: the pairs in key order.
KeyOrder ==
    << "type", "x-dead-letter-exchange", "x-knative-dlq", "x-knative-trigger",
       "x-knative-trigger-dlq", "x-match" >>
RECURSIVE MarshalFrom(_, _)
MarshalFrom(m, i) ==
    IF i > Len(KeyOrder) THEN <<>>
    ELSE IF KeyOrder[i] \in DOMAIN m
    THEN << <<KeyOrder[i], m[KeyOrder[i]]>> >> \o MarshalFrom(m, i + 1)
    ELSE MarshalFrom(m, i + 1)
Marshal(m) == MarshalFrom(m, 1)

BindingKey           == "x-knative-trigger"
DLQBindingKey        == "x-knative-dlq"
TriggerDLQBindingKey == "x-knative-trigger-dlq"

NewExchange(b, forTrigger, dlx) ==
    Owned(IF forTrigger THEN "Trigger" ELSE "Broker", [ ZeroRabbitSpec EXCEPT
                !.name = IF forTrigger THEN TriggerDLXExchangeName ELSE BrokerExchangeName(dlx),
                !.type = "headers",
                !.durable = TRUE,
                !.autoDelete = FALSE,
                !.cluster = b.cluster ])

\* NewQueue(ctx, b, nil): the Broker's dead-letter queue.
NewBrokerQueue(b) ==
    Owned("Broker", [ ZeroRabbitSpec EXCEPT
                !.name = CreateBrokerDeadLetterQueueName,
                !.durable = TRUE,
                !.autoDelete = FALSE,
                !.cluster = b.cluster ])

\* NewTriggerQueue as it would be if every Trigger queue dead-lettered to the
\* Broker's dead-letter exchange.
NewTriggerQueue_AlwaysBrokerDLX(b, t) ==
    Owned("Trigger", [ ZeroRabbitSpec EXCEPT
                !.name = CreateTriggerQueueName,
                !.durable = TRUE,
                !.autoDelete = FALSE,
                !.cluster = b.cluster,
                !.args = Marshal("x-dead-letter-exchange" :> BrokerExchangeName(TRUE)) ])

\* NewQueue(ctx, b, t): the Trigger's queue.
NewTriggerQueue(b, t) ==
    Owned("Trigger", [ ZeroRabbitSpec EXCEPT
                !.name = CreateTriggerQueueName,
                !.durable = TRUE,
                !.autoDelete = FALSE,
                !.cluster = b.cluster,
                !.args = Marshal("x-dead-letter-exchange" :>
                                   (IF HasDeadLetterSink(t.delivery)
                                    THEN TriggerDLXExchangeName
                                    ELSE BrokerExchangeName(TRUE))) ])

NewTriggerDLQ(b, t) ==
    Owned("Trigger", [ ZeroRabbitSpec EXCEPT
                !.name = CreateTriggerDeadLetterQueueName,
                !.durable = TRUE,
                !.autoDelete = FALSE,
                !.cluster = b.cluster ])

\* A Trigger's filter attributes are a sequence of <<key, value>> pairs.
\* Assigning them into a map: a later assignment overwrites an earlier one.
\* AssignAll as it would be if a key already in the map kept its value.
RECURSIVE AssignAll_KeepsFirst(_, _)
AssignAll_KeepsFirst(arguments, attributes) ==
    IF Len(attributes) = 0 THEN arguments
    ELSE AssignAll_KeepsFirst(arguments @@ (Head(attributes)[1] :> Head(attributes)[2]),
                              Tail(attributes))

RECURSIVE AssignAll(_, _)
AssignAll(arguments, attributes) ==
    IF Len(attributes) = 0 THEN arguments
    ELSE AssignAll((Head(attributes)[1] :> Head(attributes)[2]) @@ arguments, Tail(attributes))

\* The arguments map of NewBinding.
BindingArguments(forTrigger, t) ==
    IF forTrigger
    THEN AssignAll((BindingKey :> TriggerName) @@ ("x-match" :> "all"), t.filter)
    ELSE (DLQBindingKey :> BrokerName) @@ ("x-match" :> "all")

NewBinding(b, forTrigger, t) ==
    LET bindingName == IF forTrigger THEN CreateTriggerQueueName
                       ELSE CreateBrokerDeadLetterQueueName
        sourceName  == IF forTrigger THEN BrokerExchangeName(FALSE)
                       ELSE BrokerExchangeName(TRUE)
    IN  Owned(IF forTrigger THEN "Trigger" ELSE "Broker", [ ZeroRabbitSpec EXCEPT
                    !.vhost = "/",
                    !.source = sourceName,
                    !.destination = bindingName,
                    !.destinationType = "queue",
                    !.routingKey = "",
                    !.args = Marshal(BindingArguments(forTrigger, t)),
                    !.cluster = b.cluster ])

NewTriggerDLQBinding(b, t) ==
    Owned("Trigger", [ ZeroRabbitSpec EXCEPT
                !.vhost = "/",
                !.source = TriggerDLXExchangeName,
                !.destination = CreateTriggerDeadLetterQueueName,
                !.destinationType = "queue",
                !.routingKey = "",
                !.args = Marshal((TriggerDLQBindingKey :> TriggerName) @@ ("x-match" :> "all")),
                !.cluster = b.cluster ])

MakeSecret(b) ==
    Desired([ stringData |-> (BrokerURLSecretKey :> RabbitMQURL(b.cluster)) ])

MakeIngressDeployment(b) ==
    Desired([ template |-> [ ZeroTemplate EXCEPT !.image = IngressImage, !.secret = SecretName ],
              replicas |-> 1 ])

MakeIngressService(b) ==
    Desired([ ports |-> "http", selector |-> BrokerName, clusterIP |-> "" ])

\* MakeDispatcherDeployment for the Broker's dead-letter dispatcher.
MakeBrokerDispatcherDeployment(st, sub) ==
    Desired([ template |-> [ ZeroTemplate EXCEPT
                               !.image = DispatcherImage,
                               !.secret = SecretName,
                               !.queue = CreateBrokerDeadLetterQueueName,
                               !.subscriber = sub,
                               !.ingressURL = st.address ],
              replicas |-> 1 ])

(***************************************************************************)
(* The Broker reconciler (pkg/reconciler/broker).                          *)
(***************************************************************************)
isUsingOperator(b) == b.kind = OperatorKind

\* getExchangeArgs reads the cluster's connection data: one read that can fail.
getExchangeArgs(c) ==
    Call(c, "get", "config", IF Fails(c) THEN StoreError ELSE "", NoObject(BSecret))

\* URIFromDestinationV1: the resolver's answer for a destination.
Resolve(c, dest, uri) ==
    IF resolver[dest]
    THEN [ c EXCEPT !.log = Append(@, <<"resolve", dest, "", <<>> >>), !.err = "", !.ret = uri ]
    ELSE [ c EXCEPT !.log = Append(@, <<"resolve", dest, ResolveError, <<>> >>),
                    !.err = ResolveError, !.ret = "" ]

reconcileSecret(c, s) ==
    LET g == ListerGet(c, BSecret)
    IN  IF g.err = NotFound THEN Create(g, BSecret, s)
        ELSE IF g.err # "" THEN g
        ELSE IF ~DerivMap(s.spec.stringData, g.ret.spec.stringData)
        THEN Update(g, BSecret, [ g.ret EXCEPT !.spec.stringData = s.spec.stringData ])
        ELSE g

\* reconcileDeployment as it would be if every error of the lookup were taken
\* for not found.
reconcileDeployment_AnyErrorIsNotFound(c, obj, d) ==
    LET g == ListerGet(c, obj)
    IN  IF g.err # "" THEN Create(g, obj, d)
        ELSE IF ~DeepDerivativeTemplate(d.spec.template, g.ret.spec.template)
        THEN Update(g, obj, [ g.ret EXCEPT !.spec = d.spec ])
        ELSE g

reconcileDeployment(c, obj, d) ==
    LET g == ListerGet(c, obj)
    IN  IF g.err = NotFound THEN Create(g, obj, d)
        ELSE IF g.err # "" THEN g
        ELSE IF ~DeepDerivativeTemplate(d.spec.template, g.ret.spec.template)
        THEN Update(g, obj, [ g.ret EXCEPT !.spec = d.spec ])
        ELSE g

\* The endpoints lister's Get for the ingress Service.
GetEndpoints(c) ==
    LET c1 == Call(c, "get", "endpoints",
                   IF Fails(c) THEN StoreError ELSE IF endpoints = "absent" THEN NotFound ELSE "",
                   NoObject(BIngressService))
    IN  [ c1 EXCEPT !.ret = IF c1.err = "" THEN endpoints ELSE "absent" ]

reconcileService(c, svc) ==
    LET g  == ListerGet(c, BIngressService)
        g1 == IF g.err = NotFound THEN Create(g, BIngressService, svc) ELSE g
    IN  IF g1.err # "" THEN g1
        ELSE LET current == g1.ret
                 want    == [ svc EXCEPT !.spec.clusterIP = current.spec.clusterIP ]
                 g2      == IF ~DeepDerivativeService(want.spec, current.spec)
                            THEN Update(g1, BIngressService, [ current EXCEPT !.spec = want.spec ])
                            ELSE g1
             IN  IF g2.err # "" THEN g2 ELSE GetEndpoints(g2)

reconcileIngressDeployment(c, b) == reconcileDeployment(c, BIngressDeployment, MakeIngressDeployment(b))

reconcileIngressService(c, b) == reconcileService(c, MakeIngressService(b))

\* reconcileDLXDispatcherDeployment as it would be with the test on the
\* subscriber inverted.
reconcileDLXDispatcherDeployment_Inverted(c, b, sub) ==
    IF sub = ""
    THEN reconcileDeployment(c, BDispatcher, MakeBrokerDispatcherDeployment(c.st, sub))
    ELSE LET g == ListerGet(c, BDispatcher)
         IN  IF g.err = NotFound THEN [ g EXCEPT !.err = "" ]
             ELSE IF g.err # "" THEN g
             ELSE Delete(g, BDispatcher)

\* reconcileDLXDispatcherDeployment as it would be if a dispatcher that is no
\* longer wanted were left in place.
reconcileDLXDispatcherDeployment_KeepsDispatcher(c, b, sub) ==
    IF sub # ""
    THEN reconcileDeployment(c, BDispatcher, MakeBrokerDispatcherDeployment(c.st, sub))
    ELSE LET g == ListerGet(c, BDispatcher)
         IN  IF g.err = NotFound THEN [ g EXCEPT !.err = "" ] ELSE g

reconcileDLXDispatcherDeployment(c, b, sub) ==
    IF sub # ""
    THEN reconcileDeployment(c, BDispatcher, MakeBrokerDispatcherDeployment(c.st, sub))
    ELSE LET g == ListerGet(c, BDispatcher)
         IN  IF g.err = NotFound THEN [ g EXCEPT !.err = "" ]
             ELSE IF g.err # "" THEN g
             ELSE Delete(g, BDispatcher)

\* reconcileExchange as it would be with an exact comparison of the specs.
reconcileExchange_DeepEqual(c, b, dlx) ==
    LET obj  == IF dlx THEN BDlx ELSE BExchange
        want == NewExchange(b, FALSE, dlx)
        g    == ListerGet(c, obj)
    IN  IF g.err = NotFound THEN Create(g, obj, want)
        ELSE IF g.err # "" THEN g
        ELSE IF want.spec # g.ret.spec
        THEN Update(g, obj, [ g.ret EXCEPT !.spec = want.spec ])
        ELSE g

\* reconcileExchange as it would be if a rejected update were tried again.
reconcileExchange_RetriesUpdate(c, b, dlx) ==
    LET obj  == IF dlx THEN BDlx ELSE BExchange
        want == NewExchange(b, FALSE, dlx)
        g    == ListerGet(c, obj)
        u    == Update(g, obj, [ g.ret EXCEPT !.spec = want.spec ])
    IN  IF g.err = NotFound THEN Create(g, obj, want)
        ELSE IF g.err # "" THEN g
        ELSE IF ~DeepDerivativeRabbit(want.spec, g.ret.spec)
        THEN IF u.err # "" THEN Update(u, obj, [ g.ret EXCEPT !.spec = want.spec ]) ELSE u
        ELSE g

reconcileExchange(c, b, dlx) ==
    LET obj  == IF dlx THEN BDlx ELSE BExchange
        want == NewExchange(b, FALSE, dlx)
        g    == ListerGet(c, obj)
    IN  IF g.err = NotFound THEN Create(g, obj, want)
        ELSE IF g.err # "" THEN g
        ELSE IF ~DeepDerivativeRabbit(want.spec, g.ret.spec)
        THEN Update(g, obj, [ g.ret EXCEPT !.spec = want.spec ])
        ELSE g

reconcileQueue(c, b) ==
    LET want == NewBrokerQueue(b)
        g    == ListerGet(c, BDlq)
    IN  IF g.err = NotFound THEN Create(g, BDlq, want)
        ELSE IF g.err # "" THEN g
        ELSE IF ~DeepDerivativeRabbit(want.spec, g.ret.spec)
        THEN Update(g, BDlq, [ g.ret EXCEPT !.spec = want.spec ])
        ELSE g

reconcileBinding(c, b) ==
    LET want == NewBinding(b, FALSE, trigger)
        g    == ListerGet(c, BDlqBinding)
    IN  IF g.err = NotFound THEN Create(g, BDlqBinding, want)
        ELSE IF g.err # "" THEN g
        ELSE IF ~DeepDerivativeRabbit(want.spec, g.ret.spec)
        THEN Update(g, BDlqBinding, [ g.ret EXCEPT !.spec = want.spec ])
        ELSE g

\* Each pipeline below is a chain of steps: a step takes the context its
\* predecessor's call returned and either ends the run or makes the next call.
\* (The steps are defined last first.)

\* reconcileCommonIngressResources, after reconcileDLXDispatcherDeployment.
ingressAfterDispatcher(d) ==
    IF d.err # ""
    THEN Return([ d EXCEPT !.st = MarkDeadLetterSinkFailed(@, "DeploymentFailure") ], d.err)
    ELSE Return(d, "")

\* ingressAfterResolve as it would be if a destination that does not resolve
\* were taken for no destination.
ingressAfterResolve_IgnoresError(r, b) ==
    ingressAfterDispatcher(
        reconcileDLXDispatcherDeployment(r, b, IF r.err # "" THEN "" ELSE r.ret))

\* reconcileCommonIngressResources, after URIFromDestinationV1 (or without it).
ingressAfterResolve(r, b) ==
    IF r.err # ""
    THEN Return([ r EXCEPT !.st = MarkDeadLetterSinkFailed(@, "Unable to get the DeadLetterSink's URI") ],
                r.err)
    ELSE ingressAfterDispatcher(reconcileDLXDispatcherDeployment(r, b, r.ret))

\* ingressAfterService as it would be if the address were set only for
\* endpoints that are available.
ingressAfterService_AddressWhenReady(c3, b) ==
    IF c3.err # ""
    THEN Return([ c3 EXCEPT !.st = MarkIngressFailed(@, "ServiceFailure") ], c3.err)
    ELSE ingressAfterResolve(
             IF HasDeadLetterSink(b.delivery)
             THEN Resolve([ c3 EXCEPT !.st =
                                IF c3.ret = "available"
                                THEN SetAddress(PropagateIngressAvailability(@, TRUE),
                                                IngressHostname)
                                ELSE PropagateIngressAvailability(@, FALSE) ],
                          "b.dls", BrokerDLSURI)
             ELSE [ c3 EXCEPT !.st =
                                IF c3.ret = "available"
                                THEN SetAddress(PropagateIngressAvailability(@, TRUE),
                                                IngressHostname)
                                ELSE PropagateIngressAvailability(@, FALSE),
                              !.err = "", !.ret = "" ],
             b)

\* reconcileCommonIngressResources, after reconcileIngressService.
ingressAfterService(c3, b) ==
    IF c3.err # ""
    THEN Return([ c3 EXCEPT !.st = MarkIngressFailed(@, "ServiceFailure") ], c3.err)
    ELSE ingressAfterResolve(
             IF HasDeadLetterSink(b.delivery)
             THEN Resolve([ c3 EXCEPT !.st = SetAddress(
                                PropagateIngressAvailability(@, c3.ret = "available"),
                                IngressHostname) ],
                          "b.dls", BrokerDLSURI)
             ELSE [ c3 EXCEPT !.st = SetAddress(
                                PropagateIngressAvailability(@, c3.ret = "available"),
                                IngressHostname),
                              !.err = "", !.ret = "" ],
             b)

\* reconcileCommonIngressResources, after reconcileIngressDeployment.
ingressAfterDeployment(c2, b) ==
    IF c2.err # ""
    THEN Return([ c2 EXCEPT !.st = MarkIngressFailed(@, "DeploymentFailure") ], c2.err)
    ELSE ingressAfterService(reconcileIngressService(c2, b), b)

\* ingressAfterSecret as it would be without the MarkSecretReady call.
ingressAfterSecret_NoMark(c1, b) ==
    IF c1.err # ""
    THEN Return([ c1 EXCEPT !.st = MarkSecretFailed(@, "SecretFailure") ], c1.err)
    ELSE ingressAfterDeployment(reconcileIngressDeployment(c1, b), b)

\* reconcileCommonIngressResources, after reconcileSecret.
ingressAfterSecret(c1, b) ==
    IF c1.err # ""
    THEN Return([ c1 EXCEPT !.st = MarkSecretFailed(@, "SecretFailure") ], c1.err)
    ELSE ingressAfterDeployment(
             reconcileIngressDeployment([ c1 EXCEPT !.st = MarkSecretReady(@) ], b), b)

reconcileCommonIngressResources(c, s, b) == ingressAfterSecret(reconcileSecret(c, s), b)

\* crdAfterBinding as it would be without the MarkDeadLetterSinkReady call.
crdAfterBinding_NoMark(g, b) ==
    IF g.err # ""
    THEN Return([ g EXCEPT !.st = MarkDeadLetterSinkFailed(@, "DLQ binding") ], g.err)
    ELSE IF ~isReady(g.ret.conds)
    THEN Return([ g EXCEPT !.st = MarkDeadLetterSinkFailed(@, "DLQ binding") ], "")
    ELSE reconcileCommonIngressResources(g, MakeSecret(b), b)

\* reconcileUsingCRD, after reconcileBinding.
crdAfterBinding(g, b) ==
    IF g.err # ""
    THEN Return([ g EXCEPT !.st = MarkDeadLetterSinkFailed(@, "DLQ binding") ], g.err)
    ELSE IF ~isReady(g.ret.conds)
    THEN Return([ g EXCEPT !.st = MarkDeadLetterSinkFailed(@, "DLQ binding") ], "")
    ELSE reconcileCommonIngressResources([ g EXCEPT !.st = MarkDeadLetterSinkReady(@) ],
                                         MakeSecret(b), b)

\* crdAfterQueue as it would be if a store error on the queue ended the run
\* without being returned.
crdAfterQueue_ErrorSwallowed(q, b) ==
    IF q.err # ""
    THEN Return([ q EXCEPT !.st = MarkDLXFailed(@, "QueueFailure") ], "")
    ELSE IF ~isReady(q.ret.conds)
    THEN Return([ q EXCEPT !.st = MarkDLXFailed(@, "QueueFailure") ], "")
    ELSE crdAfterBinding(reconcileBinding([ q EXCEPT !.st = MarkDLXReady(@) ], b), b)

\* crdAfterQueue as it would be if the dead-letter queue's failure went to the
\* DeadLetterSink condition.
crdAfterQueue_SinkSlot(q, b) ==
    IF q.err # ""
    THEN Return([ q EXCEPT !.st = MarkDeadLetterSinkFailed(@, "QueueFailure") ], q.err)
    ELSE IF ~isReady(q.ret.conds)
    THEN Return([ q EXCEPT !.st = MarkDeadLetterSinkFailed(@, "QueueFailure") ], "")
    ELSE crdAfterBinding(reconcileBinding([ q EXCEPT !.st = MarkDLXReady(@) ], b), b)

\* reconcileUsingCRD, after reconcileQueue.
crdAfterQueue(q, b) ==
    IF q.err # ""
    THEN Return([ q EXCEPT !.st = MarkDLXFailed(@, "QueueFailure") ], q.err)
    ELSE IF ~isReady(q.ret.conds)
    THEN Return([ q EXCEPT !.st = MarkDLXFailed(@, "QueueFailure") ], "")
    ELSE crdAfterBinding(reconcileBinding([ q EXCEPT !.st = MarkDLXReady(@) ], b), b)

\* crdAfterDLX as it would be without the readiness check on the exchange.
crdAfterDLX_Ungated(d, b) ==
    IF d.err # ""
    THEN Return([ d EXCEPT !.st = MarkExchangeFailed(@, "ExchangeFailure") ], d.err)
    ELSE crdAfterQueue(reconcileQueue([ d EXCEPT !.st = MarkExchangeReady(@) ], b), b)

\* crdAfterDLX as it would be if the primary exchange's readiness were marked
\* first and the dead-letter exchange's failure went to the DLX condition.
crdAfterDLX_OwnSlot(d, b) ==
    IF d.err # ""
    THEN Return([ d EXCEPT !.st = MarkDLXFailed(MarkExchangeReady(@), "ExchangeFailure") ], d.err)
    ELSE IF ~isReady(d.ret.conds)
    THEN Return([ d EXCEPT !.st = MarkDLXFailed(MarkExchangeReady(@), "ExchangeFailure") ], "")
    ELSE crdAfterQueue(reconcileQueue([ d EXCEPT !.st = MarkExchangeReady(@) ], b), b)

\* reconcileUsingCRD, after the dead-letter exchange's reconcileExchange.
crdAfterDLX(d, b) ==
    IF d.err # ""
    THEN Return([ d EXCEPT !.st = MarkExchangeFailed(@, "ExchangeFailure") ], d.err)
    ELSE IF ~isReady(d.ret.conds)
    THEN Return([ d EXCEPT !.st = MarkExchangeFailed(@, "ExchangeFailure") ], "")
    ELSE crdAfterQueue(reconcileQueue([ d EXCEPT !.st = MarkExchangeReady(@) ], b), b)

\* crdAfterExchange as it would be without the readiness check on the primary
\* exchange.
crdAfterExchange_Ungated(e, b) ==
    IF e.err # ""
    THEN Return([ e EXCEPT !.st = MarkExchangeFailed(@, "ExchangeFailure") ], e.err)
    ELSE crdAfterDLX(reconcileExchange(e, b, TRUE), b)

\* reconcileUsingCRD, after the primary exchange's reconcileExchange.
crdAfterExchange(e, b) ==
    IF e.err # ""
    THEN Return([ e EXCEPT !.st = MarkExchangeFailed(@, "ExchangeFailure") ], e.err)
    ELSE IF ~isReady(e.ret.conds)
    THEN Return([ e EXCEPT !.st = MarkExchangeFailed(@, "ExchangeFailure") ], "")
    ELSE crdAfterDLX(reconcileExchange(e, b, TRUE), b)

reconcileUsingCRD(c, b) == crdAfterExchange(reconcileExchange(c, b, FALSE), b)

\* ReconcileKind of the Broker reconciler, after getExchangeArgs.
brokerAfterArgs(a, b) ==
    IF a.err # ""
    THEN Return([ a EXCEPT !.st = MarkExchangeFailed(@, "ExchangeCredentialsUnavailable") ], a.err)
    ELSE IF ~isUsingOperator(b)
    THEN Return([ a EXCEPT !.st = MarkExchangeFailed(@, "ReconcileFailure") ], "")
    ELSE reconcileUsingCRD(a, b)

\* ReconcileKind of the Broker reconciler, from a fresh context.
BrokerReconcileKind(c, b) == brokerAfterArgs(getExchangeArgs(c), b)

(***************************************************************************)
(* The Broker reconciler that uses the libraries                           *)
(* (pkg/reconciler/brokerstandalone).  Its reconcileSecret,                *)
(* reconcileDeployment, reconcileService, reconcileDLXDispatcherDeployment *)
(* and reconcileCommonIngressResources (broker.go 183-298, 364-415) are,   *)
(* line for line, those of pkg/reconciler/broker above.                    *)
(***************************************************************************)
DriverError == "driver error"
WontGo      == "WON'T GO"

\* What the driver declares on the RabbitMQ server for a Broker.
RExchange   == "rabbit.exchange"
RDlx        == "rabbit.dlx"
RDlq        == "rabbit.dlq"
RDlqBinding == "rabbit.dlq.binding"

\* The driver: each call dials the server and declares or deletes one thing.
\* Declaring what is there and deleting what is not both succeed.
DeclareExchange(c, dlx) ==
    LET name == IF dlx THEN RDlx ELSE RExchange
    IN  IF Fails(c) THEN Call(c, "declare", name, DriverError, NoObject(BSecret))
        ELSE [ Call(c, "declare", name, "", NoObject(BSecret)) EXCEPT !.rabbit = @ \cup { name } ]

DeleteExchange(c, dlx) ==
    LET name == IF dlx THEN RDlx ELSE RExchange
    IN  IF Fails(c) THEN Call(c, "delete", name, DriverError, NoObject(BSecret))
        ELSE [ Call(c, "delete", name, "", NoObject(BSecret)) EXCEPT !.rabbit = @ \ { name } ]

DeclareQueue(c) ==
    IF Fails(c) THEN Call(c, "declare", RDlq, DriverError, NoObject(BSecret))
    ELSE [ Call(c, "declare", RDlq, "", NoObject(BSecret)) EXCEPT !.rabbit = @ \cup { RDlq } ]

DeleteQueue(c) ==
    IF Fails(c) THEN Call(c, "delete", RDlq, DriverError, NoObject(BSecret))
    ELSE [ Call(c, "delete", RDlq, "", NoObject(BSecret)) EXCEPT !.rabbit = @ \ { RDlq } ]

MakeDLQBinding(c) ==
    IF Fails(c) THEN Call(c, "declare", RDlqBinding, DriverError, NoObject(BSecret))
    ELSE [ Call(c, "declare", RDlqBinding, "", NoObject(BSecret))
             EXCEPT !.rabbit = @ \cup { RDlqBinding } ]

S_isUsingOperator(b) == b.kind = OperatorKind

S_reconcileDLQBinding(c, b) ==
    LET a == getExchangeArgs(c)
    IN  IF a.err # "" THEN a ELSE MakeDLQBinding(a)

\* reconcileUsingLibraries, after reconcileDLQBinding.  The Secret s is the one
\* the first DeclareExchange returned for the Broker's exchange arguments.
libAfterBinding(g, b) ==
    IF g.err # ""
    THEN Return([ g EXCEPT !.st = MarkDeadLetterSinkFailed(@, "DLQ binding") ], g.err)
    ELSE reconcileCommonIngressResources([ g EXCEPT !.st = MarkDeadLetterSinkReady(@) ],
                                         MakeSecret(b), b)

\* reconcileUsingLibraries, after DeclareQueue.
libAfterQueue(q, b) ==
    IF q.err # ""
    THEN Return([ q EXCEPT !.st = MarkDLXFailed(@, "QueueFailure") ], q.err)
    ELSE libAfterBinding(S_reconcileDLQBinding([ q EXCEPT !.st = MarkDLXReady(@) ], b), b)

\* reconcileUsingLibraries, after the dead-letter exchange's DeclareExchange.
libAfterDLX(d, b) ==
    IF d.err # ""
    THEN Return([ d EXCEPT !.st = MarkDLXFailed(@, "ExchangeFailure") ], d.err)
    ELSE libAfterQueue(DeclareQueue(d), b)

\* libAfterExchange as it would be if a dead-letter exchange that an earlier
\* run declared were not declared again.
libAfterExchange_SkipsDeclared(e, b) ==
    IF e.err # ""
    THEN Return([ e EXCEPT !.st = MarkExchangeFailed(@, "ExchangeFailure") ], e.err)
    ELSE IF RDlx \in e.rabbit
    THEN libAfterQueue(DeclareQueue([ e EXCEPT !.st = MarkExchangeReady(@) ]), b)
    ELSE libAfterDLX(DeclareExchange([ e EXCEPT !.st = MarkExchangeReady(@) ], TRUE), b)

\* reconcileUsingLibraries, after the primary exchange's DeclareExchange.
libAfterExchange(e, b) ==
    IF e.err # ""
    THEN Return([ e EXCEPT !.st = MarkExchangeFailed(@, "ExchangeFailure") ], e.err)
    ELSE libAfterDLX(DeclareExchange([ e EXCEPT !.st = MarkExchangeReady(@) ], TRUE), b)

reconcileUsingLibraries(c, b) == libAfterExchange(DeclareExchange(c, FALSE), b)

\* ReconcileKind of the standalone Broker reconciler, after getExchangeArgs.
standaloneAfterArgs(a, b) ==
    IF a.err # ""
    THEN Return([ a EXCEPT !.st = MarkExchangeFailed(@, "ExchangeCredentialsUnavailable") ], a.err)
    ELSE IF S_isUsingOperator(b)
    THEN Return(a, WontGo)
    ELSE reconcileUsingLibraries(a, b)

\* ReconcileKind of the standalone Broker reconciler, from a fresh context.
S_ReconcileKind(c, b) == standaloneAfterArgs(getExchangeArgs(c), b)

\* FinalizeKind, after DeleteQueue: its error is logged, nil is returned.
finalizeAfterQueue(q) == Return(q, "")

\* FinalizeKind, after the dead-letter exchange's DeleteExchange.
finalizeAfterDLX(d) == finalizeAfterQueue(DeleteQueue(d))

\* finalizeAfterExchange as it would be if a failed deletion ended the
\* finalization with its error.
finalizeAfterExchange_StopsOnError(e) ==
    IF e.err # "" THEN Return(e, e.err)
    ELSE finalizeAfterDLX(DeleteExchange(e, TRUE))

\* FinalizeKind, after the primary exchange's DeleteExchange.
finalizeAfterExchange(e) == finalizeAfterDLX(DeleteExchange(e, TRUE))

\* FinalizeKind, after getExchangeArgs.
finalizeAfterArgs(a) ==
    IF a.err # "" THEN Return(a, "")
    ELSE finalizeAfterExchange(DeleteExchange(a, FALSE))

FinalizeKind(c, b) ==
    IF S_isUsingOperator(b) THEN Return(c, "")
    ELSE finalizeAfterArgs(getExchangeArgs(c))

(***************************************************************************)
(* The Trigger's status helpers (knative eventing's TriggerStatus).        *)
(***************************************************************************)
NewTriggerStatus ==
    [ cond    |-> [ t \in triggerCondSet \cup {ConditionReady} |-> "" ],
      reason  |-> [ t \in triggerCondSet \cup {ConditionReady} |-> "" ],
      subscriberURI |-> "", deadLetterSinkURI |-> "", observedGeneration |-> 0 ]

MarkBrokerFailed(st, reason) == MarkFalse(st, triggerCondSet, TriggerConditionBroker, reason)
MarkDependencyFailed(st, reason) == MarkFalse(st, triggerCondSet, TriggerConditionDependency, reason)
MarkDependencySucceeded(st) == MarkTrue(st, triggerCondSet, TriggerConditionDependency)
MarkDependencyUnknown(st, reason) == MarkUnknown(st, triggerCondSet, TriggerConditionDependency, reason)
MarkDeadLetterSinkResolvedFailed(st, reason) ==
    MarkFalse(st, triggerCondSet, TriggerConditionDeadLetterSinkResolved, reason)
MarkDeadLetterSinkResolvedSucceeded(st) ==
    MarkTrue(st, triggerCondSet, TriggerConditionDeadLetterSinkResolved)
MarkDeadLetterSinkNotConfigured(st) ==
    MarkTrueWithReason(st, triggerCondSet, TriggerConditionDeadLetterSinkResolved,
                       "DeadLetterSinkNotConfigured")
MarkSubscriberResolvedFailed(st, reason) ==
    MarkFalse(st, triggerCondSet, TriggerConditionSubscriberResolved, reason)
MarkSubscriberResolvedSucceeded(st) ==
    MarkTrue(st, triggerCondSet, TriggerConditionSubscriberResolved)

\* PropagateBrokerCondition(broker.Status.GetTopLevelCondition()); "" is nil.
PropagateBrokerCondition(st, bc, reason) ==
    IF bc = "" THEN MarkUnknown(st, triggerCondSet, TriggerConditionBroker, "BrokerNotConfigured")
    ELSE IF bc = "Unknown" THEN MarkUnknown(st, triggerCondSet, TriggerConditionBroker, reason)
    ELSE IF bc = "True" THEN MarkTrue(st, triggerCondSet, TriggerConditionBroker)
    ELSE MarkBrokerFailed(st, reason)

\* PropagateSubscriptionCondition with a Ready=True condition.
PropagateSubscriptionCondition(st) == MarkTrue(st, triggerCondSet, TriggerConditionSubscribed)

\* PropagateDependencyStatus: the dependency's own Ready condition ("" is nil).
PropagateDependencyStatus(st, ready) ==
    IF ready = "" THEN MarkDependencyUnknown(st, "DependencyNotConfigured")
    ELSE IF ready = "True" THEN MarkDependencySucceeded(st)
    ELSE IF ready = "False" THEN MarkDependencyFailed(st, "DependencyFailed")
    ELSE MarkDependencyUnknown(st, "DependencyUnknown")

(***************************************************************************)
(* The Trigger reconciler (pkg/reconciler/trigger).                        *)
(***************************************************************************)
T_isUsingOperator(b) == b.kind = OperatorKind

\* isReady as it would be without the check for an empty list.
T_isReady_EmptyReady(conditions) == Len(conditions) - NumTrue(conditions) = 0

T_isReady(conditions) ==
    LET numConditions == Len(conditions)
    IN  IF numConditions = 0 THEN FALSE
        ELSE numConditions - NumTrue(conditions) = 0

\* The delivery spec a dispatcher is built with, as the deployment carries it.
DeliveryEnv(owner, delivery) ==
    IF delivery = "none" THEN ""
    ELSE IF owner = "trigger"
    THEN (IF delivery = "retry" THEN "trigger-retry" ELSE "trigger-dls")
    ELSE (IF delivery = "retry" THEN "broker-retry" ELSE "broker-dls")

\* MakeDispatcherDeployment for a Trigger's dispatchers.
MakeTriggerDispatcherDeployment(secretName, queueName, ingressURL, sub, delivery, dlx) ==
    Desired([ template |-> [ ZeroTemplate EXCEPT
                               !.image = DispatcherImage,
                               !.secret = secretName,
                               !.queue = queueName,
                               !.subscriber = sub,
                               !.ingressURL = ingressURL,
                               !.delivery = delivery,
                               !.dlx = dlx ],
              replicas |-> 1 ])

\* Another actor has deleted the Broker by the time the run makes its next
\* call: from call number goneAt of the run on (0: never).
BrokerGone(c) == c.goneAt > 0 /\ Len(c.log) + 1 >= c.goneAt

\* brokerLister.Brokers(ns).Get(name)
GetBroker(c) ==
    Call(c, "get", "broker",
         IF Fails(c) THEN StoreError
         ELSE IF ~broker.exists \/ BrokerGone(c) THEN NotFound ELSE "",
         NoObject(BSecret))

\* kubeClientSet.CoreV1().Secrets(ns).Get: not found is an error here.
getRabbitmqSecret(c) == ListerGet(c, BSecret)

T_reconcileDeployment(c, obj, d) ==
    LET g == ListerGet(c, obj)
    IN  IF g.err = NotFound THEN Create(g, obj, d)
        ELSE IF g.err # "" THEN g
        ELSE IF ~DeepDerivativeTemplate(d.spec.template, g.ret.spec.template)
        THEN Update(g, obj, [ g.ret EXCEPT !.spec = d.spec ])
        ELSE g

\* reconcileDispatcherDeployment as it would be if the error of the Broker's
\* lookup were not checked.
reconcileDispatcherDeployment_UncheckedBroker(c, t, sub, delivery) ==
    LET s == getRabbitmqSecret(c)
    IN  IF s.err # "" THEN s
        ELSE T_reconcileDeployment(GetBroker(s), TDispatcher,
                 MakeTriggerDispatcherDeployment(SecretName, CreateTriggerQueueName,
                     bStatus.address, sub, delivery, FALSE))

reconcileDispatcherDeployment(c, t, sub, delivery) ==
    LET s == getRabbitmqSecret(c)
    IN  IF s.err # "" THEN s
        ELSE LET b == GetBroker(s)
             IN  IF b.err # "" THEN b
                 ELSE T_reconcileDeployment(b, TDispatcher,
                          MakeTriggerDispatcherDeployment(SecretName, CreateTriggerQueueName,
                              bStatus.address, sub, delivery, FALSE))

T_reconcileDLXDispatcherDeployment(c, t, sub) ==
    LET s == getRabbitmqSecret(c)
    IN  IF s.err # "" THEN s
        ELSE LET b == GetBroker(s)
             IN  IF b.err # "" THEN b
                 ELSE T_reconcileDeployment(b, TDlxDispatcher,
                          MakeTriggerDispatcherDeployment(SecretName,
                              CreateTriggerDeadLetterQueueName, bStatus.address, sub, "", TRUE))

\* checkDependencyAnnotation as it would be if a source that has not observed
\* its latest generation made the dependency fail.
checkDependencyAnnotation_StaleFails(c, t) ==
    IF t.dependency = "none"
    THEN [ c EXCEPT !.st = MarkDependencySucceeded(@), !.err = "" ]
    ELSE IF t.dependency = "badref"
    THEN [ c EXCEPT !.st = MarkDependencyFailed(@, "ReferenceError"), !.err = "bad reference" ]
    ELSE IF t.dependency = "untrackable"
    THEN [ c EXCEPT !.err = "tracking dependency" ]
    ELSE LET g == Call(c, "get", "dependency",
                       IF Fails(c) THEN StoreError
                       ELSE IF t.dependency = "missing" THEN NotFound ELSE "",
                       NoObject(BSecret))
         IN  IF Fails(c)
             THEN [ g EXCEPT !.st = MarkDependencyUnknown(@, "DependencyGetFailed"), !.err = StoreError ]
             ELSE IF t.dependency = "missing"
             THEN [ g EXCEPT !.st = MarkDependencyFailed(@, "DependencyDoesNotExist"), !.err = NotFound ]
             ELSE IF t.dependency = "stale"
             THEN [ g EXCEPT !.st = MarkDependencyFailed(@, "GenerationNotEqual"), !.err = "" ]
             ELSE [ g EXCEPT !.st = PropagateDependencyStatus(@, t.dependency), !.err = "" ]

\* The dependency annotation: "none" when the Trigger carries none, "badref"
\* when it does not parse, "untrackable" when the tracker rejects the reference,
\* "missing" and "stale" for a source that is not found or whose status is
\* outdated, and otherwise the Ready condition of the source ("" is nil).
checkDependencyAnnotation(c, t) ==
    IF t.dependency = "none"
    THEN [ c EXCEPT !.st = MarkDependencySucceeded(@), !.err = "" ]
    ELSE IF t.dependency = "badref"
    THEN [ c EXCEPT !.st = MarkDependencyFailed(@, "ReferenceError"), !.err = "bad reference" ]
    ELSE IF t.dependency = "untrackable"
    THEN [ c EXCEPT !.err = "tracking dependency" ]
    ELSE LET g == Call(c, "get", "dependency",
                       IF Fails(c) THEN StoreError
                       ELSE IF t.dependency = "missing" THEN NotFound ELSE "",
                       NoObject(BSecret))
         IN  IF Fails(c)
             THEN [ g EXCEPT !.st = MarkDependencyUnknown(@, "DependencyGetFailed"), !.err = StoreError ]
             ELSE IF t.dependency = "missing"
             THEN [ g EXCEPT !.st = MarkDependencyFailed(@, "DependencyDoesNotExist"), !.err = NotFound ]
             ELSE IF t.dependency = "stale"
             THEN [ g EXCEPT !.st = MarkDependencyUnknown(@, "GenerationNotEqual"), !.err = "" ]
             ELSE [ g EXCEPT !.st = PropagateDependencyStatus(@, t.dependency), !.err = "" ]

\* reconcileExchange as it would be if the update wrote the desired object
\* itself instead of a copy of the stored one.
T_reconcileExchange_WritesWant(c, b, t) ==
    LET want == NewExchange(b, TRUE, TRUE)
        g    == ListerGet(c, TDlx)
    IN  IF g.err = NotFound THEN Create(g, TDlx, want)
        ELSE IF g.err # "" THEN g
        ELSE IF ~DeepDerivativeRabbit(want.spec, g.ret.spec)
        THEN Update(g, TDlx, want)
        ELSE g

T_reconcileExchange(c, b, t) ==
    LET want == NewExchange(b, TRUE, TRUE)
        g    == ListerGet(c, TDlx)
    IN  IF g.err = NotFound THEN Create(g, TDlx, want)
        ELSE IF g.err # "" THEN g
        ELSE IF ~DeepDerivativeRabbit(want.spec, g.ret.spec)
        THEN Update(g, TDlx, [ g.ret EXCEPT !.spec = want.spec ])
        ELSE g

\* reconcileQueue as it would be with an exact comparison of the specs.
T_reconcileQueue_DeepEqual(c, b, t) ==
    LET want == NewTriggerQueue(b, t)
        g    == ListerGet(c, TQueue)
    IN  IF g.err = NotFound THEN Create(g, TQueue, want)
        ELSE IF g.err # "" THEN g
        ELSE IF want.spec # g.ret.spec
        THEN Update(g, TQueue, [ g.ret EXCEPT !.spec = want.spec ])
        ELSE g

T_reconcileQueue(c, b, t) ==
    LET want == NewTriggerQueue(b, t)
        g    == ListerGet(c, TQueue)
    IN  IF g.err = NotFound THEN Create(g, TQueue, want)
        ELSE IF g.err # "" THEN g
        ELSE IF ~DeepDerivativeRabbit(want.spec, g.ret.spec)
        THEN Update(g, TQueue, [ g.ret EXCEPT !.spec = want.spec ])
        ELSE g

reconcileDLQ(c, b, t) ==
    LET want == NewTriggerDLQ(b, t)
        g    == ListerGet(c, TDlq)
    IN  IF g.err = NotFound THEN Create(g, TDlq, want)
        ELSE IF g.err # "" THEN g
        ELSE IF ~DeepDerivativeRabbit(want.spec, g.ret.spec)
        THEN Update(g, TDlq, [ g.ret EXCEPT !.spec = want.spec ])
        ELSE g

\* reconcileBinding as it would be if it updated a diverging Binding, as the
\* other upserts do.
T_reconcileBinding_Updates(c, b, t) ==
    LET want == NewBinding(b, TRUE, t)
        g    == ListerGet(c, TBinding)
    IN  IF g.err = NotFound THEN Create(g, TBinding, want)
        ELSE IF g.err # "" THEN g
        ELSE IF ~DeepDerivativeRabbit(want.spec, g.ret.spec)
        THEN Update(g, TBinding, [ g.ret EXCEPT !.spec = want.spec ])
        ELSE g

T_reconcileBinding(c, b, t) ==
    LET want == NewBinding(b, TRUE, t)
        g    == ListerGet(c, TBinding)
    IN  IF g.err = NotFound THEN Create(g, TBinding, want)
        ELSE IF g.err # "" THEN g
        ELSE IF ~DeepDerivativeRabbit(want.spec, g.ret.spec)
        THEN [ g EXCEPT !.err = BindingImmutable ]
        ELSE g

reconcileDLQBinding(c, b, t) ==
    LET want == NewTriggerDLQBinding(b, t)
        g    == ListerGet(c, TDlqBinding)
    IN  IF g.err = NotFound THEN Create(g, TDlqBinding, want)
        ELSE IF g.err # "" THEN g
        ELSE IF ~DeepDerivativeRabbit(want.spec, g.ret.spec)
        THEN [ g EXCEPT !.err = BindingImmutable ]
        ELSE g

\* ReconcileKind, after reconcileDispatcherDeployment.
triggerAfterDispatcher(d) ==
    IF d.err # ""
    THEN Return([ d EXCEPT !.st = MarkDependencyFailed(@, "DeploymentFailure") ], d.err)
    ELSE Return(d, "")

\* EffectiveDelivery as it would be if the Broker's delivery spec were used
\* whenever the Broker has one.
EffectiveDelivery_BrokerFirst(b, t) ==
    IF b.delivery # "none" THEN DeliveryEnv("broker", b.delivery)
    ELSE DeliveryEnv("trigger", t.delivery)

\* The delivery spec of the primary dispatcher: the Trigger's, else the Broker's.
EffectiveDelivery(b, t) ==
    IF t.delivery = "none" THEN DeliveryEnv("broker", b.delivery)
    ELSE DeliveryEnv("trigger", t.delivery)

\* triggerAfterSubscriber as it would be if the resolver's error were dropped.
triggerAfterSubscriber_IgnoresError(r, b, t) ==
    triggerAfterDispatcher(
        reconcileDispatcherDeployment(
            [ r EXCEPT !.st = PropagateSubscriptionCondition(
                                MarkSubscriberResolvedSucceeded(
                                  [ @ EXCEPT !.subscriberURI = r.ret ])) ],
            t, r.ret, EffectiveDelivery(b, t)))

\* triggerAfterSubscriber as it would be if a failed resolution left the
\* subscriber address of an earlier run in the status.
triggerAfterSubscriber_KeepsURI(r, b, t) ==
    IF r.err # ""
    THEN Return([ r EXCEPT !.st = MarkSubscriberResolvedFailed(@, "Unable to get the Subscriber's URI") ],
                r.err)
    ELSE triggerAfterDispatcher(
             reconcileDispatcherDeployment(
                 [ r EXCEPT !.st = PropagateSubscriptionCondition(
                                     MarkSubscriberResolvedSucceeded(
                                       [ @ EXCEPT !.subscriberURI = r.ret ])) ],
                 t, r.ret, EffectiveDelivery(b, t)))

\* ReconcileKind, after resolving the subscriber (lines 243-273).
triggerAfterSubscriber(r, b, t) ==
    IF r.err # ""
    THEN Return([ r EXCEPT !.st = [ MarkSubscriberResolvedFailed(@, "Unable to get the Subscriber's URI")
                                    EXCEPT !.subscriberURI = "" ] ], r.err)
    ELSE triggerAfterDispatcher(
             reconcileDispatcherDeployment(
                 [ r EXCEPT !.st = PropagateSubscriptionCondition(
                                     MarkSubscriberResolvedSucceeded(
                                       [ @ EXCEPT !.subscriberURI = r.ret ])) ],
                 t, r.ret, EffectiveDelivery(b, t)))

\* ReconcileKind, after reconcileBinding (lines 221-243).
triggerAfterBinding(g, b, t) ==
    IF g.err # ""
    THEN Return([ g EXCEPT !.st = MarkDependencyFailed(@, "BindingFailure") ], g.err)
    ELSE IF ~T_isReady(g.ret.conds)
    THEN Return([ g EXCEPT !.st = MarkDependencyFailed(@, "BindingFailure") ], "")
    ELSE triggerAfterSubscriber(
             Resolve([ g EXCEPT !.st = MarkDependencySucceeded(@) ], "t.subscriber", SubscriberURI),
             b, t)

\* ReconcileKind, after reconcileQueue (lines 205-221).
triggerAfterQueue(q, b, t) ==
    IF q.err # ""
    THEN Return([ q EXCEPT !.st = MarkDependencyFailed(@, "QueueFailure") ], q.err)
    ELSE IF ~T_isReady(q.ret.conds)
    THEN Return([ q EXCEPT !.st = MarkDependencyFailed(@, "QueueFailure") ], "")
    ELSE triggerAfterBinding(T_reconcileBinding(q, b, t), b, t)

\* ReconcileKind, after the dead-letter dispatcher (lines 195-205).
triggerAfterDLXDispatcher(d, b, t) ==
    IF d.err # ""
    THEN Return([ d EXCEPT !.st = MarkDependencyFailed(@, "DeploymentFailure") ], d.err)
    ELSE triggerAfterQueue(T_reconcileQueue(d, b, t), b, t)

\* ReconcileKind, after resolving the dead-letter sink (lines 186-195).
triggerAfterDLSResolve(r, b, t) ==
    IF r.err # ""
    THEN Return([ r EXCEPT !.st = [ MarkDeadLetterSinkResolvedFailed(@, "Unable to get the DeadLetterSink URI")
                                    EXCEPT !.deadLetterSinkURI = "" ] ], r.err)
    ELSE triggerAfterDLXDispatcher(
             T_reconcileDLXDispatcherDeployment(
                 [ r EXCEPT !.st = [ MarkDeadLetterSinkResolvedSucceeded(@)
                                     EXCEPT !.deadLetterSinkURI = r.ret ] ],
                 t, r.ret),
             b, t)

\* ReconcileKind, after reconcileDLQBinding (lines 173-186).
triggerAfterDLQBinding(g, b, t) ==
    IF g.err # ""
    THEN Return([ g EXCEPT !.st = MarkDependencyFailed(@, "BindingFailure") ], g.err)
    ELSE IF ~T_isReady(g.ret.conds)
    THEN Return([ g EXCEPT !.st = MarkDependencyFailed(@, "BindingFailure") ], "")
    ELSE triggerAfterDLSResolve(Resolve(g, "t.dls", TriggerDLSURI), b, t)

\* triggerAfterDLQ as it would be without the return on a dead-letter queue
\* that is not ready.
triggerAfterDLQ_Ungated(q, b, t) ==
    IF q.err # ""
    THEN Return([ q EXCEPT !.st = MarkDependencyFailed(@, "QueueFailure") ], q.err)
    ELSE triggerAfterDLQBinding(reconcileDLQBinding(q, b, t), b, t)

\* ReconcileKind, after reconcileDLQ (lines 160-173).
triggerAfterDLQ(q, b, t) ==
    IF q.err # ""
    THEN Return([ q EXCEPT !.st = MarkDependencyFailed(@, "QueueFailure") ], q.err)
    ELSE IF ~T_isReady(q.ret.conds)
    THEN Return([ q EXCEPT !.st = MarkDependencyFailed(@, "QueueFailure") ], "")
    ELSE triggerAfterDLQBinding(reconcileDLQBinding(q, b, t), b, t)

\* ReconcileKind, after the Trigger's dead-letter exchange (lines 147-160).
triggerAfterDLX(x, b, t) ==
    IF x.err # ""
    THEN Return([ x EXCEPT !.st = MarkDependencyFailed(@, "ExchangeFailure") ], x.err)
    ELSE IF ~T_isReady(x.ret.conds)
    THEN Return([ x EXCEPT !.st = MarkDependencyFailed(@, "ExchangeFailure") ], "")
    ELSE triggerAfterDLQ(reconcileDLQ(x, b, t), b, t)

\* triggerAfterDependency as it would be without the check of the Broker's
\* config kind.
triggerAfterDependency_AnyKind(c2, b, t) ==
    IF c2.err # ""
    THEN Return(c2, c2.err)
    ELSE IF c2.st.cond[TriggerConditionDependency] # "True"
    THEN Return(c2, "")
    ELSE IF HasDeadLetterSink(t.delivery)
    THEN triggerAfterDLX(T_reconcileExchange(c2, b, t), b, t)
    ELSE triggerAfterQueue(
             T_reconcileQueue([ c2 EXCEPT !.st = MarkDeadLetterSinkNotConfigured(@) ], b, t),
             b, t)

\* ReconcileKind, after checkDependencyAnnotation (lines 125-205).
triggerAfterDependency(c2, b, t) ==
    IF c2.err # ""
    THEN Return(c2, c2.err)
    ELSE IF c2.st.cond[TriggerConditionDependency] # "True"
    THEN Return(c2, "")
    ELSE IF ~T_isUsingOperator(b)
    THEN Return([ c2 EXCEPT !.st = MarkDependencyFailed(@, "ReconcileFailure") ], "")
    ELSE IF HasDeadLetterSink(t.delivery)
    THEN triggerAfterDLX(T_reconcileExchange(c2, b, t), b, t)
    ELSE triggerAfterQueue(
             T_reconcileQueue([ c2 EXCEPT !.st = MarkDeadLetterSinkNotConfigured(@) ], b, t),
             b, t)

\* triggerAfterBroker as it would be without the return on a Broker that is not
\* ready.
triggerAfterBroker_NoStop(g, t) ==
    IF g.err = NotFound
    THEN Return([ g EXCEPT !.st = MarkBrokerFailed(@, "BrokerDoesNotExist") ], "")
    ELSE IF g.err # ""
    THEN Return([ g EXCEPT !.st = MarkBrokerFailed(@, "FailedToGetBroker") ], g.err)
    ELSE IF broker.class # BrokerClass
    THEN Return(g, "")
    ELSE triggerAfterDependency(
             checkDependencyAnnotation(
                 [ g EXCEPT !.st = PropagateBrokerCondition(
                                     [ @ EXCEPT !.observedGeneration = t.generation ],
                                     bStatus.cond[ConditionReady], bStatus.reason[ConditionReady]) ],
                 t),
             broker, t)

\* triggerAfterBroker as it would be if a Broker that is not found were recorded
\* in the Dependency condition.
triggerAfterBroker_NotFoundInDependency(g, t) ==
    IF g.err = NotFound
    THEN Return([ g EXCEPT !.st = MarkDependencyFailed(@, "BrokerDoesNotExist") ], "")
    ELSE IF g.err # ""
    THEN Return([ g EXCEPT !.st = MarkBrokerFailed(@, "FailedToGetBroker") ], g.err)
    ELSE IF broker.class # BrokerClass
    THEN Return(g, "")
    ELSE IF ~IsHappy(bStatus)
    THEN Return([ g EXCEPT !.st = PropagateBrokerCondition(
                                    [ @ EXCEPT !.observedGeneration = t.generation ],
                                    bStatus.cond[ConditionReady], bStatus.reason[ConditionReady]) ],
                "")
    ELSE triggerAfterDependency(
             checkDependencyAnnotation(
                 [ g EXCEPT !.st = PropagateBrokerCondition(
                                     [ @ EXCEPT !.observedGeneration = t.generation ],
                                     bStatus.cond[ConditionReady], bStatus.reason[ConditionReady]) ],
                 t),
             broker, t)

\* ReconcileKind, after the Broker lookup (lines 99-125).
triggerAfterBroker(g, t) ==
    IF g.err = NotFound
    THEN Return([ g EXCEPT !.st = MarkBrokerFailed(@, "BrokerDoesNotExist") ], "")
    ELSE IF g.err # ""
    THEN Return([ g EXCEPT !.st = MarkBrokerFailed(@, "FailedToGetBroker") ], g.err)
    ELSE IF broker.class # BrokerClass
    THEN Return(g, "")
    ELSE IF ~IsHappy(bStatus)
    THEN Return([ g EXCEPT !.st = PropagateBrokerCondition(
                                    [ @ EXCEPT !.observedGeneration = t.generation ],
                                    bStatus.cond[ConditionReady], bStatus.reason[ConditionReady]) ],
                "")
    ELSE triggerAfterDependency(
             checkDependencyAnnotation(
                 [ g EXCEPT !.st = PropagateBrokerCondition(
                                     [ @ EXCEPT !.observedGeneration = t.generation ],
                                     bStatus.cond[ConditionReady], bStatus.reason[ConditionReady]) ],
                 t),
             broker, t)

\* ReconcileKind of the Trigger reconciler, from a fresh context.
TriggerReconcileKind(c, t) ==
    triggerAfterBroker(GetBroker([ c EXCEPT !.st = InitializeConditions(@, triggerCondSet) ]), t)

(***************************************************************************)
(* The state machine.                                                      *)
(***************************************************************************)
Filters == { <<>>, << <<"type", "foo">> >>, << <<"x-match", "any">> >> }

Destinations == { "b.dls", "t.dls", "t.subscriber" }

\* A condition list of an object that reports not ready.
NotReadyConditions == << "True", "False" >>

\* No builder has been evaluated.
NoSample == [ fn |-> "none", arg |-> <<>>, out |-> <<>> ]

NoRun == [ engine |-> "none", err |-> "", log |-> <<>>, prior |-> "none", failAt |-> 0 ]

Init ==
    /\ broker \in [ exists : BOOLEAN, kind : { OperatorKind, "Secret" },
                    class : { BrokerClass, "OtherBroker" }, cluster : { "rabbit" },
                    delivery : Deliveries ]
    /\ trigger \in [ filter : { <<>> }, delivery : Deliveries, dependency : { "none" },
                     generation : { 1 } ]
    /\ bStatus = NewStatus(BrokerConditions)
    /\ tStatus = NewTriggerStatus
    /\ store = [ obj \in Objects |-> NoObject(obj) ]
    /\ endpoints = "absent"
    /\ resolver = [ d \in Destinations |-> TRUE ]
    /\ last = NoRun
    /\ settled = [ Broker |-> "none", Direct |-> "none", Trigger |-> "none" ]
    /\ edits = 0
    /\ rabbit = {}
    /\ sample = NoSample
    /\ controller \in { "broker", "brokerstandalone" }

\* The most store calls one run can make.
MaxCalls == 24

\* The calls FinalizeKind makes at most: getExchangeArgs and three deletions.
MaxFinalizeCalls == 4

\* The calls of a run that may fail (0: none), given the calls the run makes
\* when none fails: any call while fewer than MaxEdits disturbances happened;
\* after that, an update of the first run that follows a change made outside
\* the reconcilers, since the store rejects an update of an object that changed
\* after it was read.
Faults(log) ==
    IF edits < MaxEdits THEN 0..MaxCalls
    ELSE IF last.engine = "none" THEN { 0 } \cup { i \in DOMAIN log : log[i][1] = "update" }
    ELSE { 0 }

\* One run of the Broker pipeline; call number failAt of it fails (0: none).
BrokerRun(failAt) ==
    /\ controller = "broker"
    /\ broker.exists
    /\ broker.class = BrokerClass
    /\ \E r \in { BrokerReconcileKind(NewContext(bStatus, failAt), broker) } :
           /\ failAt > 0 => r.hit
           /\ bStatus' = r.st
           /\ store' = r.store
           /\ last' = [ engine |-> "Broker", err |-> r.err, log |-> r.log,
                        prior |-> settled.Broker, failAt |-> failAt ]
           /\ settled' = [ Broker  |-> IF failAt = 0 THEN "clean" ELSE "faulted",
                           Direct  |-> IF r.store = store /\ r.st = bStatus
                                       THEN settled.Direct ELSE "none",
                           Trigger |-> IF r.store = store /\ r.st = bStatus
                                       THEN settled.Trigger ELSE "none" ]
           /\ edits' = IF failAt > 0 /\ edits < MaxEdits THEN edits + 1 ELSE edits
    /\ UNCHANGED <<broker, trigger, tStatus, endpoints, resolver, rabbit, sample, controller>>

\* One run of the Trigger pipeline.
TriggerRun(failAt) ==
    /\ \E r \in { TriggerReconcileKind(NewContext(tStatus, failAt), trigger) } :
           /\ failAt > 0 => r.hit
           /\ tStatus' = r.st
           /\ store' = r.store
           /\ last' = [ engine |-> "Trigger", err |-> r.err, log |-> r.log,
                        prior |-> settled.Trigger, failAt |-> failAt ]
           /\ settled' = [ Broker  |-> IF r.store = store THEN settled.Broker ELSE "none",
                           Direct  |-> IF r.store = store THEN settled.Direct ELSE "none",
                           Trigger |-> IF failAt = 0 THEN "clean" ELSE "faulted" ]
           /\ edits' = IF failAt > 0 /\ edits < MaxEdits THEN edits + 1 ELSE edits
    /\ UNCHANGED <<broker, bStatus, trigger, endpoints, resolver, rabbit, sample, controller>>

\* One run of the standalone Broker reconciler's pipeline.
DirectRun(failAt) ==
    /\ controller = "brokerstandalone"
    /\ broker.exists
    /\ broker.class = BrokerClass
    /\ \E r \in { S_ReconcileKind(NewContext(bStatus, failAt), broker) } :
           /\ failAt > 0 => r.hit
           /\ bStatus' = r.st
           /\ store' = r.store
           /\ rabbit' = r.rabbit
           /\ last' = [ engine |-> "Direct", err |-> r.err, log |-> r.log,
                        prior |-> settled.Direct, failAt |-> failAt ]
           /\ settled' = [ Broker  |-> IF r.store = store /\ r.st = bStatus
                                       THEN settled.Broker ELSE "none",
                           Direct  |-> IF failAt = 0 THEN "clean" ELSE "faulted",
                           Trigger |-> IF r.store = store /\ r.st = bStatus
                                       THEN settled.Trigger ELSE "none" ]
           /\ edits' = IF failAt > 0 /\ edits < MaxEdits THEN edits + 1 ELSE edits
    /\ UNCHANGED <<broker, trigger, tStatus, endpoints, resolver, sample, controller>>

\* The Broker is deleted and the standalone reconciler finalizes it; the calls
\* whose numbers are in failing fail.  When FinalizeKind returns no error the
\* finalizer is removed and the Broker is gone.
FinalizeRun(failing) ==
    /\ controller = "brokerstandalone"
    /\ broker.exists
    /\ broker.class = BrokerClass
    /\ edits < MaxEdits
    /\ \E r \in { FinalizeKind([ NewContext(bStatus, 0) EXCEPT !.failAt = failing ], broker) } :
           /\ \A k \in failing : k <= Len(r.log)
           /\ rabbit' = r.rabbit
           /\ broker' = [ broker EXCEPT !.exists = (r.err # "") ]
           /\ last' = [ engine |-> "Finalize", err |-> r.err, log |-> r.log,
                        prior |-> "none", failAt |-> 0 ]
    /\ settled' = [ Broker |-> "none", Direct |-> "none", Trigger |-> "none" ]
    /\ edits' = edits + 1
    /\ UNCHANGED <<bStatus, trigger, tStatus, store, endpoints, resolver, sample, controller>>

Disturbed == /\ last' = NoRun
             /\ settled' = [ Broker |-> "none", Direct |-> "none", Trigger |-> "none" ]

\* The topology operator reports an object ready.
OperatorReports(obj) ==
    /\ store[obj].present
    /\ store[obj].conds # << "True" >>
    /\ store' = [ store EXCEPT ![obj].conds = << "True" >> ]
    /\ Disturbed
    /\ UNCHANGED <<broker, bStatus, trigger, tStatus, endpoints, resolver, edits, rabbit, sample, controller>>

\* The ingress Service's endpoints appear, then become available.
EndpointsProgress ==
    /\ store[BIngressService].present
    /\ endpoints # "available"
    /\ endpoints' = IF endpoints = "absent" THEN "unavailable" ELSE "available"
    /\ Disturbed
    /\ UNCHANGED <<broker, bStatus, trigger, tStatus, store, resolver, edits, rabbit, sample, controller>>

\* An object that was ready stops reporting ready.
LoseReadiness(obj) ==
    /\ edits < MaxEdits
    /\ store[obj].present
    /\ store[obj].conds = << "True" >>
    /\ store' = [ store EXCEPT ![obj].conds = NotReadyConditions ]
    /\ edits' = edits + 1
    /\ Disturbed
    /\ UNCHANGED <<broker, bStatus, trigger, tStatus, endpoints, resolver, rabbit, sample, controller>>

EndpointsLost ==
    /\ edits < MaxEdits
    /\ endpoints = "available"
    /\ endpoints' = "unavailable"
    /\ edits' = edits + 1
    /\ Disturbed
    /\ UNCHANGED <<broker, bStatus, trigger, tStatus, store, resolver, rabbit, sample, controller>>

\* The user edits the Trigger: its filter or its delivery.
EditTrigger ==
    /\ edits < MaxEdits
    /\ \E f \in Filters, d \in Deliveries :
         /\ (f = trigger.filter) # (d = trigger.delivery)
         /\ trigger' = [ trigger EXCEPT !.filter = f, !.delivery = d,
                                        !.generation = @ + 1 ]
    /\ edits' = edits + 1
    /\ Disturbed
    /\ UNCHANGED <<broker, bStatus, tStatus, store, endpoints, resolver, rabbit, sample, controller>>

\* The user edits the Broker: its delivery or the cluster it refers to.
EditBroker ==
    /\ edits < MaxEdits
    /\ broker.exists
    /\ \E d \in Deliveries, cl \in Clusters :
         /\ (d = broker.delivery) # (cl = broker.cluster)
         /\ broker' = [ broker EXCEPT !.delivery = d, !.cluster = cl ]
    /\ edits' = edits + 1
    /\ Disturbed
    /\ UNCHANGED <<bStatus, trigger, tStatus, store, endpoints, resolver, rabbit, sample, controller>>

\* A destination becomes unresolvable, or resolvable again.
ResolverChange(dest) ==
    /\ edits < MaxEdits
    /\ resolver' = [ resolver EXCEPT ![dest] = ~@ ]
    /\ edits' = edits + 1
    /\ Disturbed
    /\ UNCHANGED <<broker, bStatus, trigger, tStatus, store, endpoints, rabbit, sample, controller>>

Next ==
    \/ \E failAt \in Faults(BrokerReconcileKind(NewContext(bStatus, 0), broker).log) :
           BrokerRun(failAt)
    \/ \E failAt \in Faults(S_ReconcileKind(NewContext(bStatus, 0), broker).log) :
           DirectRun(failAt)
    \/ \E failing \in SUBSET (1..MaxFinalizeCalls) : FinalizeRun(failing)
    \/ \E failAt \in Faults(TriggerReconcileKind(NewContext(tStatus, 0), trigger).log) :
           TriggerRun(failAt)
    \/ \E obj \in RabbitObjects : OperatorReports(obj)
    \/ EndpointsProgress
    \/ \E obj \in RabbitObjects : LoseReadiness(obj)
    \/ EndpointsLost
    \/ EditTrigger
    \/ EditBroker
    \/ \E dest \in Destinations : ResolverChange(dest)

Spec == Init /\ [][Next]_vars

(***************************************************************************)
(* The builders and isReady on their own: each step evaluates one of them  *)
(* on an input drawn from a bounded set and keeps input and result in      *)
(* sample.  The Broker, the Trigger and the store stay as they start.      *)
(***************************************************************************)
MaxConditions == 4
MaxAttributes == 2

ConditionStatuses == { "True", "False", "Unknown" }
ConditionLists == UNION { [ 1..n -> ConditionStatuses ] : n \in 0..MaxConditions }

\* Filter attribute maps, as sequences of <<key, value>> pairs with distinct
\* keys; the keys include the two NewBinding sets itself.
FilterKeys   == { "type", "x-match", BindingKey }
FilterValues == { "foo", "any" }
Dependencies == { "none", "badref", "untrackable", "missing", "stale", "", "True", "False",
                  "Unknown" }
FilterMaps ==
    { f \in UNION { [ 1..n -> FilterKeys \X FilterValues ] : n \in 0..MaxAttributes } :
        \A i, j \in DOMAIN f : i # j => f[i][1] # f[j][1] }

PureInit ==
    /\ broker = [ exists |-> TRUE, kind |-> OperatorKind, class |-> BrokerClass,
                  cluster |-> "rabbit", delivery |-> "none" ]
    /\ trigger = [ filter |-> <<>>, delivery |-> "none", dependency |-> "none",
                   generation |-> 1 ]
    /\ bStatus = NewStatus(BrokerConditions)
    /\ tStatus = NewTriggerStatus
    /\ store = [ obj \in Objects |-> NoObject(obj) ]
    /\ endpoints = "absent"
    /\ resolver = [ d \in Destinations |-> TRUE ]
    /\ last = NoRun
    /\ settled = [ Broker |-> "none", Direct |-> "none", Trigger |-> "none" ]
    /\ edits = 0
    /\ rabbit = {}
    /\ sample = NoSample
    /\ controller = "broker"

Sampled(fn, arg, out) ==
    /\ sample' = [ fn |-> fn, arg |-> arg, out |-> out ]
    /\ UNCHANGED <<broker, bStatus, trigger, tStatus, store, endpoints, resolver, last,
                   settled, edits, rabbit, controller>>

\* Both copies of isReady on one condition list.
EvalIsReady ==
    \E conds \in ConditionLists :
        Sampled("isReady", conds, << isReady(conds), T_isReady(conds) >>)

\* NewBinding for the Broker (forTrigger false) or for a Trigger with a filter.
EvalNewBinding ==
    \E forTrigger \in BOOLEAN, f \in FilterMaps, cl \in Clusters :
        Sampled("NewBinding", << forTrigger, f, cl >>,
                NewBinding([ broker EXCEPT !.cluster = cl ], forTrigger,
                           [ trigger EXCEPT !.filter = f ]))

\* NewQueue for the Broker or for a Trigger, and NewTriggerDLQ.
EvalNewQueue ==
    \E who \in { "Broker", "Trigger", "TriggerDLQ" }, d \in Deliveries, cl \in Clusters :
        LET b == [ broker EXCEPT !.cluster = cl ]
            t == [ trigger EXCEPT !.delivery = d ]
        IN  Sampled("NewQueue", << who, d, cl >>,
                    IF who = "Broker" THEN NewBrokerQueue(b)
                    ELSE IF who = "Trigger" THEN NewTriggerQueue(b, t)
                    ELSE NewTriggerDLQ(b, t))

\* checkDependencyAnnotation applied to a Trigger whose Broker is ready, as
\* ReconcileKind applies it: the error it returns and the conditions it leaves.
EvalCheckDependency ==
    \E dep \in Dependencies, failAt \in 0..1 :
        LET st == PropagateBrokerCondition(InitializeConditions(NewTriggerStatus, triggerCondSet),
                                           "True", "")
            r  == checkDependencyAnnotation(NewContext(st, failAt),
                                            [ trigger EXCEPT !.dependency = dep ])
        IN  /\ failAt > 0 => r.hit
            /\ Sampled("checkDependencyAnnotation", << dep, failAt >>, << r.err, r.st.cond >>)

\* ReconcileKind from the dependency check on (lines 125-138 and what follows),
\* on a Trigger whose Broker is Ready, for one kind of dependency annotation.
EvalReconcileDependency ==
    \E dep \in Dependencies, failAt \in 0..1 :
        LET st == PropagateBrokerCondition(InitializeConditions(NewTriggerStatus, triggerCondSet),
                                           "True", "")
            t  == [ trigger EXCEPT !.dependency = dep ]
            r  == triggerAfterDependency(checkDependencyAnnotation(NewContext(st, failAt), t),
                                         broker, t)
        IN  /\ failAt > 0 => r.hit
            /\ Sampled("ReconcileKind", << dep, failAt >>, << r.err, r.st.cond, r.log >>)

PureNext ==
    \/ EvalIsReady
    \/ EvalNewBinding
    \/ EvalNewQueue
    \/ EvalCheckDependency
    \/ EvalReconcileDependency

PureSpec == PureInit /\ [][PureNext]_vars

(***************************************************************************)
(* Trigger runs on a Broker served by the topology operator, with store    *)
(* calls that may fail in any run and destinations that may stop and start *)
(* resolving at any time.                                                  *)
(***************************************************************************)
TriggerFaultInit ==
    /\ Init
    /\ broker = [ exists |-> TRUE, kind |-> OperatorKind, class |-> BrokerClass,
                  cluster |-> "rabbit", delivery |-> "none" ]
    /\ controller = "broker"

\* A destination stops resolving, or resolves again.
ResolverFlips(dest) ==
    /\ resolver' = [ resolver EXCEPT ![dest] = ~@ ]
    /\ Disturbed
    /\ UNCHANGED <<broker, bStatus, trigger, tStatus, store, endpoints, edits, rabbit, sample,
                   controller>>

TriggerFaultNext ==
    \/ BrokerRun(0)
    \/ \E failAt \in 0..Len(TriggerReconcileKind(NewContext(tStatus, 0), trigger).log) :
           TriggerRun(failAt)
    \/ \E obj \in RabbitObjects : OperatorReports(obj)
    \/ EndpointsProgress
    \/ \E dest \in Destinations : ResolverFlips(dest)

TriggerFaultSpec == TriggerFaultInit /\ [][TriggerFaultNext]_vars

(***************************************************************************)
(* Trigger runs that overlap the deletion of their Broker: runs of one     *)
(* Trigger are serialized, but nothing orders them with what other actors  *)
(* do to the Broker, so the Broker may be gone at any read after the       *)
(* first.  No store call fails.                                            *)
(***************************************************************************)
\* One run of the Trigger pipeline during which the Broker is deleted, before
\* call number goneAt of the run.
TriggerRunLosingBroker(goneAt) ==
    /\ broker.exists
    /\ \E r \in { TriggerReconcileKind([ NewContext(tStatus, 0) EXCEPT !.goneAt = goneAt ],
                                        trigger) } :
           /\ goneAt <= Len(r.log)
           /\ tStatus' = r.st
           /\ store' = r.store
           /\ last' = [ engine |-> "Trigger", err |-> r.err, log |-> r.log,
                        prior |-> "none", failAt |-> 0 ]
    /\ broker' = [ broker EXCEPT !.exists = FALSE ]
    /\ settled' = [ Broker |-> "none", Direct |-> "none", Trigger |-> "none" ]
    /\ UNCHANGED <<bStatus, trigger, endpoints, resolver, edits, rabbit, sample, controller>>

RaceNext ==
    \/ BrokerRun(0)
    \/ TriggerRun(0)
    \/ \E obj \in RabbitObjects : OperatorReports(obj)
    \/ EndpointsProgress
    \/ \E goneAt \in 2..MaxCalls : TriggerRunLosingBroker(goneAt)

RaceSpec == TriggerFaultInit /\ [][RaceNext]_vars

(***************************************************************************)
(* A Broker of kind RabbitmqCluster reconciled by the Broker reconciler    *)
(* with no store call failing.  The operator eventually reports every      *)
(* object it is given ready, the endpoints of the ingress Service          *)
(* eventually become available, and a run that would change something      *)
(* eventually happens (the reconciler is re-queued on every change of an   *)
(* object it reads).  An object, or the endpoints, may lose readiness      *)
(* MaxEdits times.                                                         *)
(***************************************************************************)
ConvergeInit ==
    /\ Init
    /\ broker.exists
    /\ broker.kind = OperatorKind
    /\ broker.class = BrokerClass
    /\ controller = "broker"

ConvergeNext ==
    \/ BrokerRun(0)
    \/ \E obj \in RabbitObjects : OperatorReports(obj)
    \/ EndpointsProgress
    \/ \E obj \in RabbitObjects : LoseReadiness(obj)
    \/ EndpointsLost

\* A Broker run with no failing call would change the state: what
\* ENABLED <<BrokerRun(0)>>_vars says, computed from the run's outcome.
BrokerRunPending ==
    /\ controller = "broker"
    /\ broker.exists
    /\ broker.class = BrokerClass
    /\ \E r \in { BrokerReconcileKind(NewContext(bStatus, 0), broker) } :
           \/ r.st # bStatus
           \/ r.store # store
           \/ last # [ engine |-> "Broker", err |-> r.err, log |-> r.log,
                       prior |-> settled.Broker, failAt |-> 0 ]
           \/ settled.Broker # "clean"

\* Weak fairness of the Broker's runs, WF_vars(BrokerRun(0)), with the
\* enabling condition written out.
FairBrokerRuns == <>[]BrokerRunPending => []<><<BrokerRun(0)>>_vars

ConvergeSpec ==
    /\ ConvergeInit
    /\ [][ConvergeNext]_vars
    /\ FairBrokerRuns
    /\ \A obj \in RabbitObjects : WF_vars(OperatorReports(obj))
    /\ WF_vars(EndpointsProgress)

(***************************************************************************)
(* Properties.  A call of a run is an entry <<op, object, error, conds>>   *)
(* of last.log.                                                            *)
(***************************************************************************)
Writes == { "create", "update", "delete" }

\* The conditions a call returned are a non-empty list of True.
AllTrue(conds) == Len(conds) > 0 /\ \A k \in DOMAIN conds : conds[k] = "True"

\* Call number i of the last run is on object obj.
CallOn(i, obj) == last.log[i][2] = obj

\* The last run made a call with operation op on object obj.
Made(op, obj) == \E i \in DOMAIN last.log : last.log[i][1] = op /\ last.log[i][2] = obj

\* C1: in every Broker run, each lookup, create or update of the dead-letter
\* Queue or of the dead-letter Binding comes after a call of the same run that
\* returned the dead-letter Exchange without error and with a non-empty
\* condition list whose conditions are all True.
C1_DLQAfterDLXReady ==
    last.engine = "Broker" =>
        \A i \in DOMAIN last.log :
            (CallOn(i, BDlq) \/ CallOn(i, BDlqBinding)) =>
                \E j \in 1..(i - 1) :
                    /\ CallOn(j, BDlx)
                    /\ last.log[j][3] = ""
                    /\ AllTrue(last.log[j][4])

\* A Broker run created the dead-letter Binding (after creating or finding the
\* dead-letter Queue).
C1_Witness == last.engine = "Broker" /\ Made("create", BDlqBinding)

\* C2: in every Trigger run, each call on the primary dispatcher Deployment
\* comes after a successful resolution of the subscriber in the same run, and a
\* run in which the resolution fails makes no call on that Deployment.
C2_DispatcherAfterSubscriber ==
    last.engine = "Trigger" =>
        /\ \A i \in DOMAIN last.log :
               CallOn(i, TDispatcher) =>
                   \E j \in 1..(i - 1) :
                       last.log[j] = <<"resolve", "t.subscriber", "", <<>> >>
        /\ (\E j \in DOMAIN last.log :
                /\ last.log[j][1] = "resolve"
                /\ last.log[j][2] = "t.subscriber"
                /\ last.log[j][3] # "")
           => \A i \in DOMAIN last.log : ~CallOn(i, TDispatcher)

\* A Trigger run created the primary dispatcher Deployment.
C2_Witness == last.engine = "Trigger" /\ Made("create", TDispatcher)

\* The last run issued no create, update or delete.
NoWrites == \A i \in DOMAIN last.log : last.log[i][1] \notin Writes

TriggerBindingDiverges ==
    /\ store[TBinding].present
    /\ ~DeepDerivativeRabbit(NewBinding(broker, TRUE, trigger).spec, store[TBinding].spec)

\* C4: a Trigger run that finds the Trigger's Binding in the store with a spec
\* the desired spec does not partial-match issues no create and no update for
\* it, leaves it as it was, marks Dependency False, returns "binding spec
\* differs and it's immutable" and makes no call on the primary dispatcher.
C4_TriggerBindingImmutable ==
    [][ ( /\ last'.engine = "Trigger"
          /\ TriggerBindingDiverges
          /\ \E i \in DOMAIN last'.log :
                last'.log[i][1] = "get" /\ last'.log[i][2] = TBinding /\ last'.log[i][3] = "" )
        => ( /\ last'.err = BindingImmutable
             /\ tStatus'.cond[TriggerConditionDependency] = "False"
             /\ \A i \in DOMAIN last'.log :
                    /\ ~(last'.log[i][1] \in Writes /\ last'.log[i][2] = TBinding)
                    /\ last'.log[i][2] # TDispatcher
             /\ store'[TBinding] = store[TBinding] )
      ]_vars

\* A Trigger run ended on the immutable Binding.
C4_Witness ==
    /\ last.engine = "Trigger"
    /\ last.err = BindingImmutable
    /\ Made("get", TBinding)
    /\ TriggerBindingDiverges

\* C5: no run of either pipeline issues an Update on a Binding.
C5_NoBindingUpdate ==
    \A i \in DOMAIN last.log : ~(last.log[i][1] = "update" /\ last.log[i][2] \in Bindings)

\* The stored object cur equals the desired spec on every field the desired
\* spec sets (a field at its zero value is not set).
SetFieldsAgree(want, zero, cur) ==
    \A f \in DOMAIN want : want[f] = zero[f] \/ want[f] = cur[f]

\* ... and differs from it in a field the desired spec leaves unset.
DiffersInUnsetOnly(want, zero, cur) ==
    /\ SetFieldsAgree(want, zero, cur)
    /\ \E f \in DOMAIN want : want[f] = zero[f] /\ cur[f] # zero[f]

\* An upsert r of object obj kept the store as it was, wrote nothing and
\* returned the stored object.
UpsertKeeps(r, obj) ==
    /\ r.err = ""
    /\ r.ret = store[obj]
    /\ r.store = store
    /\ \A i \in DOMAIN r.log : r.log[i][1] \notin Writes

\* A topology object obj whose stored spec the desired spec want partial-matches
\* is kept by its upsert r.
KeepsRabbit(obj, want, r) ==
    (store[obj].present /\ SetFieldsAgree(want.spec, ZeroRabbitSpec, store[obj].spec))
        => UpsertKeeps(r, obj)

\* The same for a Deployment, which is compared on its pod template.
KeepsDeployment(obj, want, r) ==
    (store[obj].present
     /\ SetFieldsAgree(want.spec.template, ZeroTemplate, store[obj].spec.template))
        => UpsertKeeps(r, obj)

\* C6: in every reachable state, for every managed object whose stored spec
\* equals the desired spec on each field the desired spec sets, the object's
\* upsert issues no create, update or delete, leaves the store as it is and
\* returns the stored object (the Service's upsert goes on to return the
\* Service's endpoints).
C6_PartialMatchNoUpdate ==
    LET bc == NewContext(bStatus, 0)
        tc == NewContext(tStatus, 0)
    IN  /\ KeepsRabbit(BExchange, NewExchange(broker, FALSE, FALSE),
                       reconcileExchange(bc, broker, FALSE))
        /\ KeepsRabbit(BDlx, NewExchange(broker, FALSE, TRUE),
                       reconcileExchange(bc, broker, TRUE))
        /\ KeepsRabbit(BDlq, NewBrokerQueue(broker), reconcileQueue(bc, broker))
        /\ KeepsRabbit(BDlqBinding, NewBinding(broker, FALSE, trigger),
                       reconcileBinding(bc, broker))
        /\ KeepsRabbit(TDlx, NewExchange(broker, TRUE, TRUE),
                       T_reconcileExchange(tc, broker, trigger))
        /\ KeepsRabbit(TQueue, NewTriggerQueue(broker, trigger),
                       T_reconcileQueue(tc, broker, trigger))
        /\ KeepsRabbit(TDlq, NewTriggerDLQ(broker, trigger),
                       reconcileDLQ(tc, broker, trigger))
        /\ KeepsRabbit(TBinding, NewBinding(broker, TRUE, trigger),
                       T_reconcileBinding(tc, broker, trigger))
        /\ KeepsRabbit(TDlqBinding, NewTriggerDLQBinding(broker, trigger),
                       reconcileDLQBinding(tc, broker, trigger))
        /\ KeepsDeployment(BIngressDeployment, MakeIngressDeployment(broker),
                           reconcileIngressDeployment(bc, broker))
        /\ KeepsDeployment(BDispatcher, MakeBrokerDispatcherDeployment(bStatus, BrokerDLSURI),
                           reconcileDLXDispatcherDeployment(bc, broker, BrokerDLSURI))
        /\ KeepsDeployment(TDispatcher,
                           MakeTriggerDispatcherDeployment(SecretName, CreateTriggerQueueName,
                               bStatus.address, SubscriberURI, EffectiveDelivery(broker, trigger),
                               FALSE),
                           T_reconcileDeployment(tc, TDispatcher,
                               MakeTriggerDispatcherDeployment(SecretName, CreateTriggerQueueName,
                                   bStatus.address, SubscriberURI,
                                   EffectiveDelivery(broker, trigger), FALSE)))
        /\ (store[BSecret].present
            /\ MakeSecret(broker).spec.stringData = store[BSecret].spec.stringData)
               => UpsertKeeps(reconcileSecret(bc, MakeSecret(broker)), BSecret)
        /\ (store[BIngressService].present
            /\ SetFieldsAgree(MakeIngressService(broker).spec, ZeroServiceSpec,
                              store[BIngressService].spec))
               => LET r == reconcileIngressService(bc, broker)
                  IN  /\ r.store = store
                      /\ \A i \in DOMAIN r.log : r.log[i][1] \notin Writes

\* The Trigger's Queue, the ingress Service and the Trigger's dispatcher are
\* stored with a field the desired spec leaves unset (the defaulted vhost, the
\* assigned cluster IP, the delivery spec of an earlier desired state).
C6_Witness ==
    /\ store[TQueue].present
    /\ DiffersInUnsetOnly(NewTriggerQueue(broker, trigger).spec, ZeroRabbitSpec,
                          store[TQueue].spec)
    /\ store[BIngressService].present
    /\ DiffersInUnsetOnly(MakeIngressService(broker).spec, ZeroServiceSpec,
                          store[BIngressService].spec)
    /\ store[TDispatcher].present
    /\ DiffersInUnsetOnly(MakeTriggerDispatcherDeployment(SecretName, CreateTriggerQueueName,
                              bStatus.address, SubscriberURI,
                              EffectiveDelivery(broker, trigger), FALSE).spec.template,
                          ZeroTemplate, store[TDispatcher].spec.template)

\* C7: in every reachable state, the Broker's Ready is True only if its
\* Exchange, DLX, DeadLetterSink, Secret, Ingress and Addressable slots are all
\* True, and the Trigger's Ready is True only if its Broker, Subscription,
\* Dependency, SubscriberResolved and DeadLetterSinkResolved slots are all True.
C7_ReadyOnlyIfAllSlotsTrue ==
    /\ bStatus.cond["Ready"] = "True" =>
           \A slot \in { "ExchangeReady", "DLXReady", "DeadLetterSinkReady", "SecretReady",
                         "IngressReady", "Addressable" } :
               bStatus.cond[slot] = "True"
    /\ tStatus.cond["Ready"] = "True" =>
           \A slot \in { "BrokerReady", "SubscriptionReady", "DependencyReady",
                         "SubscriberResolved", "DeadLetterSinkResolved" } :
               tStatus.cond[slot] = "True"

\* The Broker and the Trigger are both Ready.
C7_Witness == bStatus.cond["Ready"] = "True" /\ tStatus.cond["Ready"] = "True"

\* A stored object that is present and does not report ready.
NotReady(obj) == store[obj].present /\ ~AllTrue(store[obj].conds)

\* C8: a Broker run that starts with the Broker Ready and its Exchange,
\* dead-letter Exchange, dead-letter Queue or Binding not reporting ready ends
\* with the Broker's Ready not True; a Trigger run that starts with the Trigger
\* Ready and its Broker not Ready, or its Queue or Binding not reporting ready,
\* ends with the Trigger's Ready not True.
C8_LostDependencyUnreadies ==
    [][ /\ ( /\ last'.engine = "Broker"
             /\ bStatus.cond[ConditionReady] = "True"
             /\ \E obj \in { BExchange, BDlx, BDlq, BDlqBinding } : NotReady(obj) )
           => bStatus'.cond[ConditionReady] # "True"
        /\ ( /\ last'.engine = "Trigger"
             /\ tStatus.cond[ConditionReady] = "True"
             /\ \/ bStatus.cond[ConditionReady] # "True"
                \/ \E obj \in { TQueue, TBinding } : NotReady(obj) )
           => tStatus'.cond[ConditionReady] # "True"
      ]_vars

\* The Broker's dead-letter Queue stopped reporting ready after the Trigger (and
\* so the Broker) had become Ready, and the Broker has run since.
C8_Witness ==
    /\ last.engine = "Broker"
    /\ store[BDlq].conds = NotReadyConditions
    /\ tStatus.cond[ConditionReady] = "True"
    /\ bStatus.cond[ConditionReady] = "False"

\* The last run is a Broker run, of a Broker without a dead-letter sink, that
\* returned no error and went on past the dead-letter Binding.
BrokerRunWithoutSink ==
    /\ last.engine = "Broker"
    /\ ~HasDeadLetterSink(broker.delivery)
    /\ last.err = ""
    /\ Made("get", BSecret)

\* C9 as stated: such a run leaves the DeadLetterSink slot in a state that is
\* neither failed nor the state a succeeded dead-letter sink has (True, with no
\* reason).
C9_SinkSlotNotConfigured ==
    BrokerRunWithoutSink =>
        /\ bStatus.cond[BrokerConditionDeadLetterSink] # "False"
        /\ ~( /\ bStatus.cond[BrokerConditionDeadLetterSink] = "True"
              /\ bStatus.reason[BrokerConditionDeadLetterSink] = "" )

\* C9, amended: such a run leaves the DeadLetterSink slot True with no reason,
\* the state a succeeded dead-letter sink has, and the Broker is Ready at its
\* end when the ingress Service's endpoints are available.
C9_SinkSlotTrueAndReady ==
    BrokerRunWithoutSink =>
        /\ bStatus.cond[BrokerConditionDeadLetterSink] = "True"
        /\ bStatus.reason[BrokerConditionDeadLetterSink] = ""
        /\ endpoints = "available" => bStatus.cond[ConditionReady] = "True"

\* A Broker without a dead-letter sink became Ready.
C9_Witness ==
    /\ BrokerRunWithoutSink
    /\ endpoints = "available"
    /\ bStatus.cond[ConditionReady] = "True"

\* The last run is a Trigger run that found its Broker, of this class and not
\* Ready.
TriggerRunOnUnreadyBroker ==
    /\ last.engine = "Trigger"
    /\ broker.exists
    /\ broker.class = BrokerClass
    /\ bStatus.cond[ConditionReady] # "True"
    /\ last.log[1][3] = ""

\* What PropagateBrokerCondition makes of a Broker's top-level condition that is
\* not True.
PropagatedBroker == IF bStatus.cond[ConditionReady] = "False" THEN "False" ELSE "Unknown"

\* C10 as stated: such a run returns no error, leaves Dependency Unknown, sets
\* the Trigger's Broker slot from the Broker's top-level condition and makes no
\* call but the Broker lookup.
C10_SoftStopDependencyUnknown ==
    TriggerRunOnUnreadyBroker =>
        /\ last.err = ""
        /\ tStatus.cond[TriggerConditionDependency] = "Unknown"
        /\ tStatus.cond[TriggerConditionBroker] = PropagatedBroker
        /\ Len(last.log) = 1

\* C10, amended: such a run returns no error, leaves Dependency as it was
\* before the run (Unknown when it had never been set), sets the Trigger's
\* Broker slot from the Broker's top-level condition and makes no call but the
\* Broker lookup.
C10_SoftStopDependencyKept ==
    [][ TriggerRunOnUnreadyBroker' =>
            /\ last'.err = ""
            /\ tStatus'.cond[TriggerConditionDependency] =
                   ( IF tStatus.cond[TriggerConditionDependency] = "" THEN "Unknown"
                     ELSE tStatus.cond[TriggerConditionDependency] )
            /\ tStatus'.cond[TriggerConditionBroker] = PropagatedBroker'
            /\ Len(last'.log) = 1
            /\ store' = store
      ]_vars

\* A Trigger that had been Ready ran against its Broker after the Broker lost
\* its readiness: Dependency is still True.
C10_Witness ==
    /\ TriggerRunOnUnreadyBroker
    /\ last.err = ""
    /\ tStatus.cond[TriggerConditionDependency] = "True"
    /\ tStatus.cond[TriggerConditionBroker] = "False"

\* C11: isReady of a condition list is true exactly when the list is not
\* empty and every condition in it is True, and the Trigger reconciler's
\* isReady gives the same answer as the Broker reconciler's on every list.
C11_IsReadyAllTrue ==
    sample.fn = "isReady" =>
        /\ sample.out[1] = ( /\ Len(sample.arg) > 0
                             /\ \A i \in DOMAIN sample.arg : sample.arg[i] = "True" )
        /\ sample.out[2] = sample.out[1]

\* isReady was applied to the empty list and found it not ready.
C11_Witness == sample.fn = "isReady" /\ Len(sample.arg) = 0 /\ sample.out = << FALSE, FALSE >>

\* What the upsert r of object obj, with desired object want, did: the lookup,
\* then exactly one of: (a) not found: one create, after which the stored spec
\* is the desired one (with the server's defaults); (b) found and matching: no
\* write, the stored object returned; (c) found and diverging: one update;
\* (d) any other error of the lookup: no write, that error returned.
UpsertDoesOne(r, obj, want, matches) ==
    LET get == r.log[1]
    IN  /\ get[1] = "get" /\ get[2] = obj
        /\ get[3] = NotFound =>
               /\ Len(r.log) = 2
               /\ r.log[2][1] = "create" /\ r.log[2][2] = obj
               /\ r.err = r.log[2][3]
               /\ IF r.err = ""
                  THEN /\ r.store[obj].present
                       /\ r.store[obj].spec = ServerDefaults(obj, want.spec)
                  ELSE r.store = store
        /\ (get[3] = "" /\ matches) =>
               /\ Len(r.log) = 1
               /\ r.err = ""
               /\ r.ret = store[obj]
               /\ r.store = store
        /\ (get[3] = "" /\ ~matches) =>
               /\ Len(r.log) = 2
               /\ r.log[2][1] = "update" /\ r.log[2][2] = obj
               /\ r.err = r.log[2][3]
        /\ get[3] \notin { "", NotFound } =>
               /\ Len(r.log) = 1
               /\ r.err = get[3]
               /\ r.store = store

\* The stored topology object obj equals want on every field want sets.
MatchesRabbit(obj, want) == SetFieldsAgree(want.spec, ZeroRabbitSpec, store[obj].spec)

\* The same for a Deployment, on its pod template.
MatchesDeployment(obj, want) ==
    SetFieldsAgree(want.spec.template, ZeroTemplate, store[obj].spec.template)

\* C12: in every reachable state, with no call rejected, the lookup rejected or
\* the write rejected, the upsert of each Exchange, Queue, Secret and Deployment
\* does exactly one of (a) to (d) above.
C12_UpsertDoesExactlyOne ==
    \A f \in 0..2 :
        LET bc == NewContext(bStatus, f)
            tc == NewContext(tStatus, f)
            td == MakeTriggerDispatcherDeployment(SecretName, CreateTriggerQueueName,
                      bStatus.address, SubscriberURI, EffectiveDelivery(broker, trigger), FALSE)
            bd == MakeBrokerDispatcherDeployment(bStatus, BrokerDLSURI)
        IN  /\ UpsertDoesOne(reconcileExchange(bc, broker, FALSE), BExchange,
                             NewExchange(broker, FALSE, FALSE),
                             MatchesRabbit(BExchange, NewExchange(broker, FALSE, FALSE)))
            /\ UpsertDoesOne(reconcileExchange(bc, broker, TRUE), BDlx,
                             NewExchange(broker, FALSE, TRUE),
                             MatchesRabbit(BDlx, NewExchange(broker, FALSE, TRUE)))
            /\ UpsertDoesOne(T_reconcileExchange(tc, broker, trigger), TDlx,
                             NewExchange(broker, TRUE, TRUE),
                             MatchesRabbit(TDlx, NewExchange(broker, TRUE, TRUE)))
            /\ UpsertDoesOne(reconcileQueue(bc, broker), BDlq, NewBrokerQueue(broker),
                             MatchesRabbit(BDlq, NewBrokerQueue(broker)))
            /\ UpsertDoesOne(T_reconcileQueue(tc, broker, trigger), TQueue,
                             NewTriggerQueue(broker, trigger),
                             MatchesRabbit(TQueue, NewTriggerQueue(broker, trigger)))
            /\ UpsertDoesOne(reconcileDLQ(tc, broker, trigger), TDlq,
                             NewTriggerDLQ(broker, trigger),
                             MatchesRabbit(TDlq, NewTriggerDLQ(broker, trigger)))
            /\ UpsertDoesOne(reconcileSecret(bc, MakeSecret(broker)), BSecret,
                             MakeSecret(broker),
                             MakeSecret(broker).spec.stringData = store[BSecret].spec.stringData)
            /\ UpsertDoesOne(reconcileIngressDeployment(bc, broker), BIngressDeployment,
                             MakeIngressDeployment(broker),
                             MatchesDeployment(BIngressDeployment, MakeIngressDeployment(broker)))
            /\ UpsertDoesOne(reconcileDLXDispatcherDeployment(bc, broker, BrokerDLSURI),
                             BDispatcher, bd, MatchesDeployment(BDispatcher, bd))
            /\ UpsertDoesOne(T_reconcileDeployment(tc, TDispatcher, td), TDispatcher, td,
                             MatchesDeployment(TDispatcher, td))

\* A Broker run found the Secret with the connection data of another cluster
\* and updated it, and found no dead-letter dispatcher and created it.
C12_Witness ==
    /\ last.engine = "Broker"
    /\ Made("update", BSecret)
    /\ Made("create", BDispatcher)

\* The last run is a run of a Broker reconciler that obtained the exchange
\* arguments, on a Broker whose config kind selects the strategy the reconciler
\* does not implement.
UnsupportedKindRun ==
    /\ \/ last.engine = "Broker" /\ broker.kind # OperatorKind
       \/ last.engine = "Direct" /\ broker.kind = OperatorKind
    /\ last.log[1] = << "get", "config", "", <<>> >>

\* C13: such a run leaves a condition slot of the Broker False, makes no
\* create, update or declare call and returns no error.
C13_UnsupportedKindMarkedNotRetried ==
    UnsupportedKindRun =>
        /\ \E slot \in rabbitBrokerCondSet : bStatus.cond[slot] = "False"
        /\ \A i \in DOMAIN last.log : last.log[i][1] \notin { "create", "update", "declare" }
        /\ last.err = ""

\* The last run is a run of a reconciliation pipeline (not a finalization).
PipelineRun == last.engine \in { "Broker", "Direct", "Trigger" }

\* C14 as stated: no run of a reconciliation pipeline issues a delete.
C14_RunsNeverDelete ==
    PipelineRun => \A i \in DOMAIN last.log : last.log[i][1] # "delete"

\* C14, amended: the only delete a run of a reconciliation pipeline issues is
\* that of the Broker's dead-letter dispatcher Deployment, in a run of a Broker
\* reconciler on a Broker that configures no dead-letter sink, right after the
\* lookup that found the Deployment; the Trigger's pipeline issues none.
C14_RunsDeleteOnlyUnwantedDispatcher ==
    PipelineRun =>
        \A i \in DOMAIN last.log :
            last.log[i][1] = "delete" =>
                /\ last.log[i][2] = BDispatcher
                /\ last.engine \in { "Broker", "Direct" }
                /\ ~HasDeadLetterSink(broker.delivery)
                /\ i > 1
                /\ last.log[i - 1][1] = "get"
                /\ last.log[i - 1][2] = BDispatcher
                /\ last.log[i - 1][3] = ""

\* A Broker run deleted the dead-letter dispatcher Deployment of a Broker whose
\* dead-letter sink had been removed.
C14_Witness ==
    /\ last.engine = "Broker"
    /\ Made("delete", BDispatcher)
    /\ ~store[BDispatcher].present

\* Call number i of the last run is the driver's deletion of name.
Deletion(i, name) == last.log[i][1] = "delete" /\ last.log[i][2] = name

\* C15: a finalization by the standalone Broker reconciler returns no error
\* (and the Broker is then gone), whichever of its calls fail; when it obtained
\* the exchange arguments it made exactly three more calls: the deletion of the
\* primary Exchange, of the dead-letter Exchange and of the dead-letter Queue,
\* in that order.
C15_FinalizeDeletesAllReturnsNil ==
    last.engine = "Finalize" =>
        /\ last.err = ""
        /\ ~broker.exists
        /\ (Len(last.log) > 0 /\ last.log[1][3] = "") =>
               /\ Len(last.log) = 4
               /\ Deletion(2, RExchange)
               /\ Deletion(3, RDlx)
               /\ Deletion(4, RDlq)

\* A finalization in which the deletion of the primary Exchange and that of the
\* dead-letter Queue failed, and that of the dead-letter Exchange, which had
\* been declared, went through.
C15_Witness ==
    /\ last.engine = "Finalize"
    /\ Len(last.log) = 4
    /\ last.log[2][3] = DriverError
    /\ last.log[3][3] = ""
    /\ last.log[4][3] = DriverError
    /\ rabbit = { RExchange, RDlq, RDlqBinding }

\* The topology objects of the Broker pipeline, and the condition slot the
\* pipeline marks for each.
BrokerTopology == { BExchange, BDlx, BDlq, BDlqBinding }

TopologySlot(obj) ==
    IF obj \in { BExchange, BDlx } THEN BrokerConditionExchange
    ELSE IF obj = BDlq THEN BrokerConditionDLX
    ELSE BrokerConditionDeadLetterSink

\* Call number i of the last run is the one that ended the upsert of obj.
EndsUpsert(i, obj) ==
    /\ CallOn(i, obj)
    /\ last.log[i][3] # NotFound
    /\ ~(i < Len(last.log) /\ CallOn(i + 1, obj))

\* The last run ended at call number i, with the slot of obj marked False.
StoppedAt(i, obj) == i = Len(last.log) /\ bStatus.cond[TopologySlot(obj)] = "False"

\* C16: in every run of the Broker reconciler that uses the topology operator,
\* for each of the primary Exchange, the dead-letter Exchange, the dead-letter
\* Queue and the dead-letter Binding: when its upsert returns the object
\* without error but not ready, the run ends there without error and with the
\* step's condition False; when its upsert returns an error, the run ends there
\* with that error and with the step's condition False.
C16_TopologyStepStops ==
    last.engine = "Broker" =>
        \A obj \in BrokerTopology : \A i \in DOMAIN last.log :
            EndsUpsert(i, obj) =>
                /\ (last.log[i][3] = "" /\ ~AllTrue(last.log[i][4])) =>
                       StoppedAt(i, obj) /\ last.err = ""
                /\ last.log[i][3] # "" =>
                       StoppedAt(i, obj) /\ last.err = last.log[i][3]

\* A Broker run ended without error on the dead-letter Queue it had just
\* created, which is not ready yet.
C16_Witness ==
    /\ last.engine = "Broker"
    /\ last.err = ""
    /\ last.log[Len(last.log)][1] = "create"
    /\ CallOn(Len(last.log), BDlq)
    /\ bStatus.cond[BrokerConditionDLX] = "False"

\* Some condition of the status is False.
SomeFalse(cond) == \E t \in DOMAIN cond : cond[t] = "False"

\* The conditions of the entity the last run reconciled.
RunConditions == IF last.engine = "Trigger" THEN tStatus.cond ELSE bStatus.cond

\* checkDependencyAnnotation, sampled, returned an error and left no condition
\* of the Trigger False.
DependencyErrorUnmarked ==
    /\ sample.fn = "checkDependencyAnnotation"
    /\ sample.out[1] # ""
    /\ ~SomeFalse(sample.out[2])

\* C17: every run of the Broker reconciler, of the standalone Broker
\* reconciler or of the Trigger reconciler that returns an error leaves at
\* least one condition of the entity False, and so does every error return of
\* the Trigger's dependency check.
C17_ErrorRunMarksFalse ==
    /\ (PipelineRun /\ last.err # "") => SomeFalse(RunConditions)
    /\ ~DependencyErrorUnmarked

\* Call number i of the last run is a write.
IsWrite(i) == last.log[i][1] \in Writes

\* C18: in every run of a reconciler, a create or an update that is rejected is
\* the last call of the run, which returns the rejection's error, and no two
\* writes of the run are on the same object.
C18_RejectedWriteEndsRun ==
    PipelineRun =>
        /\ \A i \in DOMAIN last.log :
               (IsWrite(i) /\ last.log[i][3] # "") =>
                   i = Len(last.log) /\ last.err = last.log[i][3]
        /\ \A i, j \in DOMAIN last.log :
               (i < j /\ IsWrite(i) /\ IsWrite(j)) => last.log[i][2] # last.log[j][2]

\* A Broker run whose update of the primary Exchange was rejected, after the
\* lookup had returned the Exchange.
C18_Witness ==
    /\ last.engine = "Broker"
    /\ Len(last.log) > 1
    /\ last.log[Len(last.log)] = << "update", BExchange, StoreError, <<>> >>
    /\ last.err = StoreError

\* The marshalled arguments args map key k to value v.
HasPair(args, k, v) == \E i \in DOMAIN args : args[i] = << k, v >>

\* The filter attributes f have key k.
HasKey(f, k) == \E i \in DOMAIN f : f[i][1] = k

\* The arguments of the dead-letter Binding NewBinding builds for a Broker:
\* exactly x-match = "all" and x-knative-dlq = the Broker's name.
BrokerBindingArguments(args) ==
    /\ Len(args) = 2
    /\ HasPair(args, "x-match", "all")
    /\ HasPair(args, DLQBindingKey, BrokerName)

\* C19 as stated: the arguments of the Binding NewBinding builds for a Trigger
\* contain x-match = "all", x-knative-trigger = the Trigger's name and every
\* filter attribute unchanged; those of the Binding it builds for a Broker are
\* exactly x-match = "all" and x-knative-dlq = the Broker's name.
C19_ReservedKeysAndFilter ==
    sample.fn = "NewBinding" =>
        LET args == sample.out.spec.args
            f    == sample.arg[2]
        IN  IF sample.arg[1]
            THEN /\ HasPair(args, "x-match", "all")
                 /\ HasPair(args, BindingKey, TriggerName)
                 /\ \A i \in DOMAIN f : HasPair(args, f[i][1], f[i][2])
            ELSE BrokerBindingArguments(args)

\* C19, amended: the arguments of the Binding NewBinding builds for a Trigger
\* contain every filter attribute unchanged, x-match = "all" unless the filter
\* has an attribute x-match, and x-knative-trigger = the Trigger's name unless
\* the filter has an attribute x-knative-trigger; those of the Binding it builds
\* for a Broker are exactly x-match = "all" and x-knative-dlq = the Broker's name.
C19_FilterOverridesReservedKeys ==
    sample.fn = "NewBinding" =>
        LET args == sample.out.spec.args
            f    == sample.arg[2]
        IN  IF sample.arg[1]
            THEN /\ ~HasKey(f, "x-match") => HasPair(args, "x-match", "all")
                 /\ ~HasKey(f, BindingKey) => HasPair(args, BindingKey, TriggerName)
                 /\ \A i \in DOMAIN f : HasPair(args, f[i][1], f[i][2])
            ELSE BrokerBindingArguments(args)

\* NewBinding built the Binding of a Trigger whose filter has the attributes
\* x-match = "any" and type = "foo": the arguments carry both, and the
\* Trigger's name.
C19_Witness ==
    /\ sample.fn = "NewBinding"
    /\ sample.arg[1]
    /\ sample.arg[2] = << << "x-match", "any" >>, << "type", "foo" >> >>
    /\ sample.out.spec.args =
           << << "type", "foo" >>, << BindingKey, TriggerName >>, << "x-match", "any" >> >>

\* The dead-letter exchange a Trigger's queue points at, by the Trigger's delivery.
TriggerQueueDLX(delivery) ==
    IF delivery = "dls" THEN TriggerDLXExchangeName ELSE BrokerExchangeName(TRUE)

\* C20: every Queue NewQueue and NewTriggerDLQ build is durable and not
\* auto-deleted and refers to the Broker's cluster; the Broker's dead-letter
\* queue is owned by the Broker; a Trigger's queue is owned
\* by the Trigger and its only argument, x-dead-letter-exchange, names the
\* Trigger's dead-letter Exchange when the Trigger has a dead-letter sink and
\* the Broker's dead-letter Exchange otherwise; the Trigger's dead-letter queue
\* is owned by the Trigger and has the Trigger's dead-letter queue name.
C20_QueueDurableOwnedDeadLettered ==
    sample.fn = "NewQueue" =>
        LET q   == sample.out
            who == sample.arg[1]
        IN  /\ q.present
            /\ q.spec.durable
            /\ ~q.spec.autoDelete
            /\ q.spec.cluster = sample.arg[3]
            /\ who = "Broker" =>
                   /\ q.owner = "Broker"
                   /\ q.spec.name = CreateBrokerDeadLetterQueueName
            /\ who = "Trigger" =>
                   /\ q.owner = "Trigger"
                   /\ q.spec.name = CreateTriggerQueueName
                   /\ q.spec.args =
                          << << "x-dead-letter-exchange", TriggerQueueDLX(sample.arg[2]) >> >>
            /\ who = "TriggerDLQ" =>
                   /\ q.owner = "Trigger"
                   /\ q.spec.name = CreateTriggerDeadLetterQueueName

\* NewQueue built the queue of a Trigger that has a dead-letter sink: it points
\* at the Trigger's own dead-letter Exchange.
C20_Witness ==
    /\ sample.fn = "NewQueue"
    /\ sample.arg[1] = "Trigger"
    /\ sample.arg[2] = "dls"
    /\ sample.out.spec.args = << << "x-dead-letter-exchange", TriggerDLXExchangeName >> >>

\* The last run is a Broker run that ended on the upsert of obj, which returned
\* an error or an object that is not ready.
BrokerRunStoppedOn(obj) ==
    /\ last.engine = "Broker"
    /\ Len(last.log) > 0
    /\ EndsUpsert(Len(last.log), obj)
    /\ (last.log[Len(last.log)][3] # "" \/ ~AllTrue(last.log[Len(last.log)][4]))

\* The last run looked obj up, or wrote it, and got it back ready.
ObservedReady(obj) ==
    \E i \in DOMAIN last.log :
        CallOn(i, obj) /\ last.log[i][3] = "" /\ AllTrue(last.log[i][4])

\* C21 as stated: a Broker run that ends on a dead-letter Exchange that fails or
\* is not ready leaves the DLX condition False and the Exchange condition True.
C21_DLXFailureInDLXSlot ==
    BrokerRunStoppedOn(BDlx) =>
        /\ bStatus.cond[BrokerConditionDLX] = "False"
        /\ bStatus.cond[BrokerConditionExchange] = "True"

\* C21, amended: a Broker run that ends on a dead-letter Exchange that fails or
\* is not ready leaves the Exchange condition False and the DLX condition as it
\* was before the run, and a Broker run leaves the Exchange condition True only
\* when it got both the primary and the dead-letter Exchange back ready.
C21_DLXFailureInExchangeSlot ==
    [][ /\ BrokerRunStoppedOn(BDlx)' =>
               /\ bStatus'.cond[BrokerConditionExchange] = "False"
               /\ bStatus'.cond[BrokerConditionDLX] = bStatus.cond[BrokerConditionDLX]
        /\ (last'.engine = "Broker" /\ bStatus'.cond[BrokerConditionExchange] = "True") =>
               ObservedReady(BExchange)' /\ ObservedReady(BDlx)' ]_vars

\* A Broker run got the primary Exchange back ready and ended on the dead-letter
\* Exchange it had just created: the Exchange condition is False and the DLX
\* condition is still unset ("").
C21_Witness ==
    /\ BrokerRunStoppedOn(BDlx)
    /\ ObservedReady(BExchange)
    /\ last.log[Len(last.log)][1] = "create"
    /\ bStatus.cond[BrokerConditionExchange] = "False"
    /\ bStatus.cond[BrokerConditionDLX] = ""

\* The step made the DeadLetterSink condition of the Broker True.
SinkSetTrue ==
    /\ bStatus'.cond[BrokerConditionDeadLetterSink] = "True"
    /\ bStatus.cond[BrokerConditionDeadLetterSink] # "True"

\* C22 as stated: a Broker run that ends on a dead-letter Queue or on a
\* dead-letter Binding that fails or is not ready leaves the DeadLetterSink
\* condition False, and a Broker run makes that condition True only when it got
\* both the Queue and the Binding back ready.
C22_QueueAndBindingInSinkSlot ==
    [][ /\ (BrokerRunStoppedOn(BDlq)' \/ BrokerRunStoppedOn(BDlqBinding)') =>
               bStatus'.cond[BrokerConditionDeadLetterSink] = "False"
        /\ (last'.engine = "Broker" /\ SinkSetTrue) =>
               ObservedReady(BDlq)' /\ ObservedReady(BDlqBinding)' ]_vars

\* C22, amended: a Broker run that ends on a dead-letter Queue that fails or is
\* not ready leaves the DLX condition False and the DeadLetterSink condition as
\* it was; one that ends on such a dead-letter Binding leaves the
\* DeadLetterSink condition False; and a Broker run makes the DeadLetterSink
\* condition True only when it got both the Queue and the Binding back ready.
C22_QueueInDLXSlotBindingInSinkSlot ==
    [][ /\ BrokerRunStoppedOn(BDlq)' =>
               /\ bStatus'.cond[BrokerConditionDLX] = "False"
               /\ bStatus'.cond[BrokerConditionDeadLetterSink] =
                      bStatus.cond[BrokerConditionDeadLetterSink]
        /\ BrokerRunStoppedOn(BDlqBinding)' =>
               bStatus'.cond[BrokerConditionDeadLetterSink] = "False"
        /\ (last'.engine = "Broker" /\ SinkSetTrue) =>
               ObservedReady(BDlq)' /\ ObservedReady(BDlqBinding)' ]_vars

\* A Broker run ended on a dead-letter Queue that is not ready, with the
\* DeadLetterSink condition still True from an earlier run and the DLX
\* condition False.
C22_Witness ==
    /\ BrokerRunStoppedOn(BDlq)
    /\ last.err = ""
    /\ bStatus.cond[BrokerConditionDLX] = "False"
    /\ bStatus.cond[BrokerConditionDeadLetterSink] = "True"

\* The last run is a run of one of the two Broker reconcilers.
BrokerEngineRun == last.engine \in { "Broker", "Direct" }

\* The last run read the endpoints of the ingress Service without error.
EndpointsRead ==
    \E i \in DOMAIN last.log : CallOn(i, "endpoints") /\ last.log[i][3] = ""

\* The place of an ingress resource in reconcileCommonIngressResources (0 for
\* any other object).
IngressRank(obj) ==
    IF obj = BSecret THEN 1
    ELSE IF obj = BIngressDeployment THEN 2
    ELSE IF obj \in { BIngressService, "endpoints" } THEN 3
    ELSE 0

\* In the last run the Secret, the ingress Deployment and the ingress Service
\* (with its endpoints) are handled in that order, each after the one before
\* it, and a call on one of them that fails is the last call of the run.
IngressInOrder ==
    /\ \A i, j \in DOMAIN last.log :
           (i < j /\ IngressRank(last.log[i][2]) > 0 /\ IngressRank(last.log[j][2]) > 0) =>
               IngressRank(last.log[i][2]) <= IngressRank(last.log[j][2])
    /\ \A j \in DOMAIN last.log :
           IngressRank(last.log[j][2]) > 1 =>
               \E i \in 1..(j - 1) : IngressRank(last.log[i][2]) = IngressRank(last.log[j][2]) - 1
                                     \/ IngressRank(last.log[i][2]) = IngressRank(last.log[j][2])
    /\ \A i \in DOMAIN last.log :
           (IngressRank(last.log[i][2]) > 0 /\ last.log[i][3] \notin { "", NotFound }) =>
               i = Len(last.log) /\ last.err = last.log[i][3]

\* C23 as stated: a Broker run changes the Broker's address only when it leaves
\* the Ingress condition True, and it handles the Secret, the ingress
\* Deployment and the ingress Service in that order, a failure of one ending
\* the run.
C23_AddressOnlyWhenIngressReady ==
    [][ BrokerEngineRun' =>
            /\ bStatus'.address # bStatus.address =>
                   bStatus'.cond[BrokerConditionIngress] = "True"
            /\ IngressInOrder' ]_vars

\* C23, amended: a Broker run sets the Broker's address exactly when it read
\* the endpoints of the ingress Service without error, available or not, and
\* otherwise leaves the address as it was; and it handles the Secret, the
\* ingress Deployment and the ingress Service in that order, a failure of one
\* ending the run.
C23_AddressWhenEndpointsRead ==
    [][ BrokerEngineRun' =>
            /\ bStatus'.address = IF EndpointsRead' THEN IngressHostname ELSE bStatus.address
            /\ EndpointsRead' =>
                   bStatus'.cond[BrokerConditionIngress] =
                       (IF endpoints = "available" THEN "True" ELSE "False")
            /\ IngressInOrder' ]_vars

\* A Broker run read endpoints that are not available: the Ingress condition is
\* False and the address is set.
C23_Witness ==
    /\ last.engine = "Broker"
    /\ EndpointsRead
    /\ endpoints = "unavailable"
    /\ bStatus.cond[BrokerConditionIngress] = "False"
    /\ bStatus.address = IngressHostname

\* Call number i of the last run is a resolution that failed.
ResolveFailed(i) == last.log[i][1] = "resolve" /\ last.log[i][3] # ""

\* C24: a run of a Broker reconciler in which the dead-letter destination does
\* not resolve ends there: it returns the resolver's error, leaves the
\* DeadLetterSink condition False, and makes no call on the dead-letter
\* dispatcher Deployment.
C24_UnresolvedSinkStopsBeforeDispatcher ==
    BrokerEngineRun =>
        \A i \in DOMAIN last.log :
            ResolveFailed(i) =>
                /\ i = Len(last.log)
                /\ last.err = last.log[i][3]
                /\ bStatus.cond[BrokerConditionDeadLetterSink] = "False"
                /\ \A j \in DOMAIN last.log : ~CallOn(j, BDispatcher)

\* A Broker run got the dead-letter Binding back ready (and so marked the
\* DeadLetterSink condition True) and then failed to resolve the Broker's
\* dead-letter destination.
C24_Witness ==
    /\ last.engine = "Broker"
    /\ broker.delivery = "dls"
    /\ ObservedReady(BDlqBinding)
    /\ ResolveFailed(Len(last.log))
    /\ last.err = ResolveError
    /\ bStatus.cond[BrokerConditionDeadLetterSink] = "False"

\* The last run is a run of a Broker reconciler, on a Broker without a
\* dead-letter destination, that got as far as the dispatcher step.
DispatcherStepWithoutSink ==
    /\ BrokerEngineRun
    /\ ~HasDeadLetterSink(broker.delivery)
    /\ \E i \in DOMAIN last.log : CallOn(i, BDispatcher)

\* C25: a run of a Broker reconciler that reaches the dispatcher step with no
\* dead-letter destination configured looks the dead-letter dispatcher
\* Deployment up; when there is none it makes no other call on it, when there
\* is one its only other call is the deletion; and when the run returns no
\* error the store holds no dispatcher Deployment.
C25_UnwantedDispatcherRemoved ==
    DispatcherStepWithoutSink =>
        LET n == Len(last.log)
            k == CHOOSE i \in DOMAIN last.log :
                     CallOn(i, BDispatcher) /\ \A j \in 1..(i - 1) : ~CallOn(j, BDispatcher)
        IN  /\ last.log[k][1] = "get"
            /\ last.log[k][3] # "" => k = n
            /\ last.log[k][3] = "" => (k + 1 = n /\ Deletion(n, BDispatcher))
            /\ last.err = "" => ~store[BDispatcher].present

\* A Broker whose dead-letter destination was removed: the run of the Broker
\* reconciler found the dispatcher Deployment, deleted it and returned no error.
C25_Witness ==
    /\ DispatcherStepWithoutSink
    /\ last.err = ""
    /\ Deletion(Len(last.log), BDispatcher)
    /\ last.log[Len(last.log)][3] = ""
    /\ ~store[BDispatcher].present

\* The last run is a Trigger run whose Broker lookup returned err.
TriggerRunBrokerLookup(err) ==
    /\ last.engine = "Trigger"
    /\ last.log[1] = << "get", "broker", err, <<>> >>

\* C26 as stated: a Trigger run that does not find its Broker leaves the
\* Dependency condition False, returns no error and makes no other call; one
\* whose Broker lookup fails otherwise returns an error.
C26_NoBrokerMarksDependency ==
    /\ TriggerRunBrokerLookup(NotFound) =>
           /\ tStatus.cond[TriggerConditionDependency] = "False"
           /\ last.err = ""
           /\ Len(last.log) = 1
    /\ TriggerRunBrokerLookup(StoreError) => last.err # ""

\* C26, amended: a Trigger run that does not find its Broker leaves the
\* Trigger's Broker condition False and its Dependency condition as it was
\* (Unknown when it had never been set), returns no error, and makes no other
\* call and no change to the store; one whose Broker lookup fails otherwise
\* leaves the Broker condition False, returns an error and makes no other call.
C26_NoBrokerMarksBroker ==
    [][ /\ TriggerRunBrokerLookup(NotFound)' =>
               /\ tStatus'.cond[TriggerConditionBroker] = "False"
               /\ tStatus'.cond[TriggerConditionDependency] =
                      ( IF tStatus.cond[TriggerConditionDependency] = "" THEN "Unknown"
                        ELSE tStatus.cond[TriggerConditionDependency] )
               /\ last'.err = ""
               /\ Len(last'.log) = 1
               /\ store' = store
        /\ TriggerRunBrokerLookup(StoreError)' =>
               /\ tStatus'.cond[TriggerConditionBroker] = "False"
               /\ last'.err # ""
               /\ Len(last'.log) = 1
               /\ store' = store ]_vars

\* A Trigger run did not find its Broker: the Broker condition is False, the
\* Dependency condition Unknown, and no error was returned.
C26_Witness ==
    /\ TriggerRunBrokerLookup(NotFound)
    /\ ~broker.exists
    /\ last.err = ""
    /\ tStatus.cond[TriggerConditionBroker] = "False"
    /\ tStatus.cond[TriggerConditionDependency] = "Unknown"

\* The last run is a Trigger run that found its Broker, which belongs to
\* another broker class.
TriggerRunOnForeignBroker ==
    /\ last.engine = "Trigger"
    /\ broker.exists
    /\ broker.class # BrokerClass
    /\ last.log[1] = << "get", "broker", "", <<>> >>

\* C27: a Trigger run whose Broker belongs to another broker class returns no
\* error, leaves the Trigger's status (conditions, observed generation,
\* resolved addresses) exactly as it was before the run, makes no call but the
\* Broker lookup and changes nothing in the store.
C27_ForeignTriggerUntouched ==
    [][ TriggerRunOnForeignBroker' =>
            /\ last'.err = ""
            /\ tStatus' = tStatus
            /\ Len(last'.log) = 1
            /\ store' = store ]_vars

\* The run from the dependency check on was evaluated, without a fault, for
\* a Trigger whose dependency has not observed its latest generation.
StaleDependencyRun ==
    /\ sample.fn = "ReconcileKind"
    /\ sample.arg = << "stale", 0 >>

\* C28: a Trigger run on a dependency whose generation differs from its
\* observed generation leaves the Dependency condition Unknown, returns no
\* error and makes no call but the lookup of the dependency.
C28_StaleDependencyUnknown ==
    StaleDependencyRun =>
        /\ sample.out[1] = ""
        /\ sample.out[2][TriggerConditionDependency] = "Unknown"
        /\ \A i \in DOMAIN sample.out[3] :
               sample.out[3][i][1] = "get" /\ sample.out[3][i][2] = "dependency"

\* Such a run was evaluated: it looked up the dependency, found it, and left
\* the Dependency condition Unknown.
C28_Witness ==
    /\ StaleDependencyRun
    /\ sample.out[3] = << << "get", "dependency", "", <<>> >> >>
    /\ sample.out[2][TriggerConditionDependency] = "Unknown"

\* The last run is a Trigger run that found its Broker, of this class and
\* Ready, with a config kind other than the one the topology operator serves.
TriggerRunOnUnsupportedKind ==
    /\ last.engine = "Trigger"
    /\ broker.exists
    /\ broker.class = BrokerClass
    /\ IsHappy(bStatus)
    /\ broker.kind # OperatorKind
    /\ last.log[1] = << "get", "broker", "", <<>> >>

\* C29: a Trigger run on a Ready Broker whose config kind is not
\* "RabbitmqCluster" leaves the Dependency condition False, returns no error,
\* makes no call but the Broker lookup (no topology call, no address
\* resolution, no dispatcher call) and changes nothing in the store; when it
\* follows a Trigger run whose Broker lookup succeeded, with nothing changed in
\* between, it leaves the Trigger's status as it was.
C29_UnsupportedKindDependencyFalse ==
    [][ TriggerRunOnUnsupportedKind' =>
            /\ tStatus'.cond[TriggerConditionDependency] = "False"
            /\ last'.err = ""
            /\ Len(last'.log) = 1
            /\ store' = store
            /\ (last'.prior = "clean" => tStatus' = tStatus) ]_vars

\* A second Trigger run in a row on a Ready Broker of kind "Secret": Dependency
\* is False and the Trigger is not Ready.
C29_Witness ==
    /\ TriggerRunOnUnsupportedKind
    /\ last.prior = "clean"
    /\ tStatus.cond[TriggerConditionDependency] = "False"
    /\ tStatus.reason[TriggerConditionDependency] = "ReconcileFailure"
    /\ tStatus.cond[ConditionReady] = "False"

\* The place of a call's object in the dead-letter part of the Trigger
\* pipeline (0 for any other object).
TriggerDLSRank(obj) ==
    IF obj = TDlx THEN 1
    ELSE IF obj = TDlq THEN 2
    ELSE IF obj = TDlqBinding THEN 3
    ELSE IF obj = "t.dls" THEN 4
    ELSE IF obj = TDlxDispatcher THEN 5
    ELSE 0

\* Call number i of the last run succeeded: it returned no error and, for an
\* Exchange, Queue or Binding, an object whose conditions are all True.
StepSucceeded(i) ==
    /\ last.log[i][3] = ""
    /\ TriggerDLSRank(last.log[i][2]) <= 3 => AllTrue(last.log[i][4])

\* The last run is a Trigger run, on a Trigger with a dead-letter destination
\* of its own, that got as far as the Trigger's dead-letter Exchange.
TriggerDLSRun ==
    /\ last.engine = "Trigger"
    /\ HasDeadLetterSink(trigger.delivery)
    /\ \E i \in DOMAIN last.log : CallOn(i, TDlx)

\* The desired dead-letter Binding of the Trigger diverges from the stored one.
TriggerDLQBindingDiverges ==
    /\ store[TDlqBinding].present
    /\ ~DeepDerivativeRabbit(NewTriggerDLQBinding(broker, trigger).spec, store[TDlqBinding].spec)

\* Call number i of the last run found the Trigger's dead-letter Binding with a
\* spec that the desired one does not match.
FoundDivergingDLQBinding(i) ==
    /\ CallOn(i, TDlqBinding)
    /\ last.log[i][1] = "get"
    /\ last.log[i][3] = ""
    /\ TriggerDLQBindingDiverges

\* C30: in such a run the Trigger's dead-letter Exchange, Queue and Binding,
\* the resolution of its dead-letter destination and its dead-letter
\* dispatcher are handled in that order, each after a call that returned the
\* one before it ready (or resolved); a call on the Trigger's primary Queue or
\* Binding comes after a successful call on the dead-letter dispatcher; an
\* Exchange, Queue or Binding returned not ready is the last call of the run,
\* which returns no error; a call of this part that fails is the last call of
\* the run, which returns its error; and the lookup of a dead-letter Binding
\* whose spec diverges is the last call of the run, which returns "binding spec
\* differs and it's immutable".
C30_TriggerDLSChainInOrder ==
    TriggerDLSRun =>
        /\ \A i, j \in DOMAIN last.log :
               (i < j /\ TriggerDLSRank(last.log[i][2]) > 0
                      /\ TriggerDLSRank(last.log[j][2]) > 0) =>
                   TriggerDLSRank(last.log[i][2]) <= TriggerDLSRank(last.log[j][2])
        /\ \A j \in DOMAIN last.log :
               TriggerDLSRank(last.log[j][2]) > 1 =>
                   \E i \in 1..(j - 1) :
                       /\ TriggerDLSRank(last.log[i][2]) = TriggerDLSRank(last.log[j][2]) - 1
                       /\ StepSucceeded(i)
        /\ \A j \in DOMAIN last.log :
               (CallOn(j, TQueue) \/ CallOn(j, TBinding)) =>
                   \E i \in 1..(j - 1) : CallOn(i, TDlxDispatcher) /\ last.log[i][3] = ""
        /\ \A i \in DOMAIN last.log :
               ( /\ TriggerDLSRank(last.log[i][2]) > 0
                 /\ EndsUpsert(i, last.log[i][2])
                 /\ ~StepSucceeded(i) \/ FoundDivergingDLQBinding(i) ) =>
                   /\ i = Len(last.log)
                   /\ last.err = IF FoundDivergingDLQBinding(i) THEN BindingImmutable
                                 ELSE last.log[i][3]
        /\ \A i \in 2..Len(last.log) :
               ( /\ last.log[i][3] # ""
                 /\ last.log[i][2] \in { BSecret, "broker" }
                 /\ \A j \in 1..i : ~CallOn(j, TQueue) ) =>
                   /\ i = Len(last.log)
                   /\ last.err = last.log[i][3]

\* A Trigger run found the Trigger's dead-letter Exchange, Queue and Binding
\* ready, resolved the dead-letter destination, created the dead-letter
\* dispatcher and went on to the primary Queue.
C30_Witness ==
    /\ TriggerDLSRun
    /\ Made("resolve", "t.dls")
    /\ Made("create", TDlxDispatcher)
    /\ Made("get", TQueue)

\* The last run is a Trigger run, on a Trigger without a dead-letter
\* destination of its own, that got past the dead-letter step: it marked the
\* dead-letter sink as not configured and went on to the primary Queue.
TriggerRunWithoutDLS ==
    /\ last.engine = "Trigger"
    /\ ~HasDeadLetterSink(trigger.delivery)
    /\ tStatus.reason[TriggerConditionDeadLetterSinkResolved] = "DeadLetterSinkNotConfigured"
    /\ \E i \in DOMAIN last.log : CallOn(i, TQueue)

\* C31: after a Trigger run that reached the dead-letter step on a Trigger
\* without a dead-letter destination, no dead-letter dispatcher Deployment of
\* the Trigger is in the store.
C31_UnconfiguredDLSRemovesDispatcher ==
    TriggerRunWithoutDLS => ~store[TDlxDispatcher].present

\* Call number i of the last run is the resolution of the subscriber.
SubscriberResolution(i) == last.log[i][1] = "resolve" /\ CallOn(i, "t.subscriber")

\* C32: at the end of a Trigger run that tried to resolve the subscriber: when
\* the resolution failed, it is the last call of the run, the run returns its
\* error, SubscriberResolved is False and the status holds no subscriber
\* address; when it succeeded, SubscriberResolved is True and the status holds
\* the resolved address.  So SubscriberResolved is True exactly when the
\* address is set.
C32_SubscriberResolvedIffAddress ==
    last.engine = "Trigger" =>
        \A i \in DOMAIN last.log :
            SubscriberResolution(i) =>
                /\ last.log[i][3] # "" =>
                       /\ i = Len(last.log)
                       /\ last.err = last.log[i][3]
                       /\ tStatus.cond[TriggerConditionSubscriberResolved] = "False"
                       /\ tStatus.subscriberURI = ""
                /\ last.log[i][3] = "" =>
                       /\ tStatus.cond[TriggerConditionSubscriberResolved] = "True"
                       /\ tStatus.subscriberURI = SubscriberURI
                /\ (tStatus.cond[TriggerConditionSubscriberResolved] = "True")
                       <=> (tStatus.subscriberURI # "")

\* A Trigger run failed to resolve the subscriber after the primary dispatcher
\* had been created by an earlier run that resolved it: the address of that
\* run is gone from the status.
C32_Witness ==
    /\ last.engine = "Trigger"
    /\ SubscriberResolution(Len(last.log))
    /\ last.err = ResolveError
    /\ store[TDispatcher].present
    /\ tStatus.subscriberURI = ""
    /\ tStatus.cond[TriggerConditionSubscriberResolved] = "False"

\* The last run is a Trigger run that wrote the primary dispatcher Deployment:
\* it created it, or updated it, and the call succeeded.
WrotePrimaryDispatcher ==
    /\ last.engine = "Trigger"
    /\ \E i \in DOMAIN last.log :
           /\ CallOn(i, TDispatcher)
           /\ last.log[i][1] \in { "create", "update" }
           /\ last.log[i][3] = ""

\* C33: the primary dispatcher Deployment a Trigger run writes carries the
\* Trigger's delivery spec when the Trigger has one, and otherwise the Broker's
\* (none when the Broker has none either).
C33_DispatcherDeliveryTriggerFirst ==
    WrotePrimaryDispatcher =>
        store[TDispatcher].spec.template.delivery =
            CASE trigger.delivery = "retry" -> "trigger-retry"
              [] trigger.delivery = "dls"   -> "trigger-dls"
              [] trigger.delivery = "none" /\ broker.delivery = "retry" -> "broker-retry"
              [] trigger.delivery = "none" /\ broker.delivery = "dls"   -> "broker-dls"
              [] OTHER -> ""

\* A Trigger run wrote the primary dispatcher for a Trigger with a delivery
\* spec of its own on a Broker that has another one.
C33_Witness ==
    /\ WrotePrimaryDispatcher
    /\ trigger.delivery = "retry"
    /\ broker.delivery = "dls"
    /\ store[TDispatcher].spec.template.delivery = "trigger-retry"

\* The last run made a successful call on a dispatcher Deployment of the
\* Trigger.
DispatcherReconciled ==
    \E i \in DOMAIN last.log :
        /\ CallOn(i, TDispatcher) \/ CallOn(i, TDlxDispatcher)
        /\ last.log[i][3] = ""

\* C34, for the Trigger's Dependency slot: when the slot is False because a
\* dispatcher reconcile failed (reason DeploymentFailure) and a step makes it
\* True, that step is a Trigger run in which a dispatcher reconcile succeeded.
C34_DependencyFalseUntilDispatcherSucceeds ==
    [][ ( /\ tStatus.cond[TriggerConditionDependency] = "False"
          /\ tStatus.reason[TriggerConditionDependency] = "DeploymentFailure"
          /\ tStatus'.cond[TriggerConditionDependency] = "True" )
        => (last'.engine = "Trigger" /\ DispatcherReconciled') ]_vars

\* The upsert r issued an update of object obj.
Updates(r, obj) == \E i \in DOMAIN r.log : r.log[i][1] = "update" /\ r.log[i][2] = obj

\* The object the upsert r of obj wrote is the stored object with the spec
\* section spec: metadata and status as stored.
WroteStoredWith(r, obj, spec) ==
    Updates(r, obj) =>
        /\ r.sent.present
        /\ r.sent.owner = store[obj].owner
        /\ r.sent.conds = store[obj].conds
        /\ r.sent.spec = spec

\* The object the upsert r of obj wrote has the stored value in every field of
\* fields that the desired value want leaves at its zero value.
WroteUnsetAsStored(r, obj, want, zero, written, stored) ==
    Updates(r, obj) => \A f \in DOMAIN want : want[f] = zero[f] => written[f] = stored[f]

\* C35 (as claimed): in every reachable state, when the upsert of an Exchange
\* or a Queue updates the stored object, every spec field the desired spec
\* leaves unset has in the written object the value it has in the stored one.
C35_UnsetSpecFieldsKept ==
    LET bc == NewContext(bStatus, 0)
        tc == NewContext(tStatus, 0)
        rx == reconcileExchange(bc, broker, FALSE)
        rd == T_reconcileExchange(tc, broker, trigger)
        rq == T_reconcileQueue(tc, broker, trigger)
    IN  /\ WroteUnsetAsStored(rx, BExchange, NewExchange(broker, FALSE, FALSE).spec,
                              ZeroRabbitSpec, rx.sent.spec, store[BExchange].spec)
        /\ WroteUnsetAsStored(rd, TDlx, NewExchange(broker, TRUE, TRUE).spec,
                              ZeroRabbitSpec, rd.sent.spec, store[TDlx].spec)
        /\ WroteUnsetAsStored(rq, TQueue, NewTriggerQueue(broker, trigger).spec,
                              ZeroRabbitSpec, rq.sent.spec, store[TQueue].spec)

\* C35 (amended): in every reachable state, when the upsert of a managed
\* object updates the stored object, the object written is the stored object
\* with its spec section replaced by the desired spec: owner reference and
\* conditions are the stored ones, and the spec is the desired spec as built
\* (for the Service, with the stored cluster IP copied into it; for the
\* Secret, the stored spec with the desired string data).
C35_WrittenIsStoredWithDesiredSpec ==
    LET bc == NewContext(bStatus, 0)
        tc == NewContext(tStatus, 0)
        td == MakeTriggerDispatcherDeployment(SecretName, CreateTriggerQueueName,
                  bStatus.address, SubscriberURI, EffectiveDelivery(broker, trigger), FALSE)
    IN  /\ WroteStoredWith(reconcileExchange(bc, broker, FALSE), BExchange,
                           NewExchange(broker, FALSE, FALSE).spec)
        /\ WroteStoredWith(reconcileExchange(bc, broker, TRUE), BDlx,
                           NewExchange(broker, FALSE, TRUE).spec)
        /\ WroteStoredWith(reconcileQueue(bc, broker), BDlq, NewBrokerQueue(broker).spec)
        /\ WroteStoredWith(T_reconcileExchange(tc, broker, trigger), TDlx,
                           NewExchange(broker, TRUE, TRUE).spec)
        /\ WroteStoredWith(T_reconcileQueue(tc, broker, trigger), TQueue,
                           NewTriggerQueue(broker, trigger).spec)
        /\ WroteStoredWith(reconcileDLQ(tc, broker, trigger), TDlq,
                           NewTriggerDLQ(broker, trigger).spec)
        /\ WroteStoredWith(reconcileIngressDeployment(bc, broker), BIngressDeployment,
                           MakeIngressDeployment(broker).spec)
        /\ WroteStoredWith(T_reconcileDeployment(tc, TDispatcher, td), TDispatcher, td.spec)
        /\ WroteStoredWith(reconcileIngressService(bc, broker), BIngressService,
                           [ MakeIngressService(broker).spec EXCEPT
                                 !.clusterIP = store[BIngressService].spec.clusterIP ])
        /\ WroteStoredWith(reconcileSecret(bc, MakeSecret(broker)), BSecret,
                           [ store[BSecret].spec EXCEPT
                                 !.stringData = MakeSecret(broker).spec.stringData ])

\* The Trigger's dead-letter Exchange is stored ready, with the defaulted
\* vhost, for another cluster than the Broker's: its upsert updates it.
C35_Witness ==
    /\ store[TDlx].present
    /\ store[TDlx].conds = << "True" >>
    /\ store[TDlx].spec.vhost = "/"
    /\ Updates(T_reconcileExchange(NewContext(tStatus, 0), broker, trigger), TDlx)

\* The Broker's six condition slots are True (and with them Ready).
BrokerAllTrue ==
    /\ \A slot \in { BrokerConditionExchange, BrokerConditionDLX, BrokerConditionDeadLetterSink,
                      BrokerConditionSecret, BrokerConditionIngress, BrokerConditionAddressable } :
           bStatus.cond[slot] = "True"
    /\ bStatus.cond[ConditionReady] = "True"

TopologyPresent(st) == { obj \in BrokerTopology : st[obj].present }

\* Call i of the last run created a topology object of the Broker.
CreatedTopology(i) ==
    /\ last.log[i][1] = "create"
    /\ last.log[i][2] \in BrokerTopology
    /\ last.log[i][3] = ""

\* The last run is a Broker run that created at most one topology object; the
\* object came back with no condition, the creation is the run's last call and
\* the run returned no error.
AtMostOneTopologyCreated ==
    /\ Cardinality({ i \in DOMAIN last.log : CreatedTopology(i) }) <= 1
    /\ \A i \in DOMAIN last.log :
           CreatedTopology(i) =>
               /\ last.log[i][4] = <<>>
               /\ ~isReady(last.log[i][4])
               /\ i = Len(last.log)
               /\ last.err = ""

\* C37: every run of the Broker reconciler on a Broker of kind RabbitmqCluster
\* creates at most one of the primary Exchange, the dead-letter Exchange, the
\* dead-letter Queue and the Binding; the created object is returned with an
\* empty condition list, which is not ready, and its creation is the last call
\* of the run, which returns no error.  A run adds at most one topology object
\* to the store, and a run that reaches the Secret started with all four in
\* the store: from an empty store four runs come before it.
C37_OneTopologyObjectPerRun ==
    [][ last'.engine = "Broker" =>
            /\ AtMostOneTopologyCreated'
            /\ Cardinality(TopologyPresent(store')) <= Cardinality(TopologyPresent(store)) + 1
            /\ (\E i \in DOMAIN last'.log : last'.log[i][2] = BSecret)
                   => TopologyPresent(store) = BrokerTopology ]_vars

\* A Broker run created the Binding, the last of the four, and stopped.
C37_Witness ==
    /\ last.engine = "Broker"
    /\ Len(last.log) > 0
    /\ CreatedTopology(Len(last.log))
    /\ last.log[Len(last.log)][2] = BDlqBinding
    /\ TopologyPresent(store) = BrokerTopology
    /\ ~store[BSecret].present

\* Call i of the last run read the Broker, with error err.
BrokerRead(i, err) ==
    last.log[i][1] = "get" /\ last.log[i][2] = "broker" /\ last.log[i][3] = err

\* Call i of the last run resolved the subscriber.
SubscriberResolvedAt(i) ==
    last.log[i][1] = "resolve" /\ last.log[i][2] = "t.subscriber" /\ last.log[i][3] = ""

\* Some call before call i of the last run got obj back, ready.
ReconciledBefore(i, obj) ==
    \E j \in 1..(i - 1) :
        CallOn(j, obj) /\ last.log[j][3] = "" /\ AllTrue(last.log[j][4])

\* The last run is a Trigger run that found its Broker at the start and did
\* not find it at read number i.
BrokerLostAt(i) ==
    /\ last.engine = "Trigger"
    /\ i \in DOMAIN last.log
    /\ i > 1
    /\ BrokerRead(1, "")
    /\ BrokerRead(i, NotFound)

\* C38 (as claimed): a Trigger run that found its Broker at the start and not
\* at a later read returns an error with Dependency False and writes no
\* dispatcher Deployment, after having resolved the subscriber (leaving
\* SubscriberResolved True) and reconciled the Queue and the Binding.
C38_LostBrokerAfterSubscriber ==
    \A i \in DOMAIN last.log :
        BrokerLostAt(i) =>
            /\ last.err # ""
            /\ tStatus.cond[TriggerConditionDependency] = "False"
            /\ \A j \in DOMAIN last.log :
                   ~(last.log[j][1] \in Writes /\ last.log[j][2] \in { TDispatcher, TDlxDispatcher })
            /\ \E j \in 1..(i - 1) : SubscriberResolvedAt(j)
            /\ tStatus.cond[TriggerConditionSubscriberResolved] = "True"
            /\ ReconciledBefore(i, TQueue)
            /\ ReconciledBefore(i, TBinding)

\* C38 (amended): a Trigger run reads its Broker at the start and again each
\* time it builds a dispatcher Deployment: the dead-letter dispatcher's when
\* the Trigger has a dead-letter destination, then the primary dispatcher's.
\* A run that found the Broker at the start and not at a later read ends on
\* that read, returns its not-found error, leaves Dependency False with
\* reason DeploymentFailure and makes no call for the Deployment it was
\* building.  When the read is the primary dispatcher's, the subscriber was
\* resolved, SubscriberResolved is True and the Queue and the Binding were
\* found ready earlier in the run; when it is the dead-letter dispatcher's,
\* the run has neither resolved the subscriber nor reconciled the Queue or the
\* Binding, and made no call for either dispatcher.
C38_LostBrokerAtAnyDispatcher ==
    \A i \in DOMAIN last.log :
        BrokerLostAt(i) =>
            /\ i = Len(last.log)
            /\ last.err = NotFound
            /\ tStatus.cond[TriggerConditionDependency] = "False"
            /\ tStatus.reason[TriggerConditionDependency] = "DeploymentFailure"
            /\ IF \E j \in 1..(i - 1) : SubscriberResolvedAt(j)
               THEN /\ tStatus.cond[TriggerConditionSubscriberResolved] = "True"
                    /\ ReconciledBefore(i, TQueue)
                    /\ ReconciledBefore(i, TBinding)
                    /\ \A j \in DOMAIN last.log : ~CallOn(j, TDispatcher)
               ELSE /\ HasDeadLetterSink(trigger.delivery)
                    /\ \A j \in DOMAIN last.log :
                           /\ ~CallOn(j, TDispatcher)
                           /\ ~CallOn(j, TDlxDispatcher)
                           /\ ~CallOn(j, TQueue)
                           /\ ~CallOn(j, TBinding)

\* A run of a Trigger with a dead-letter destination read the Broker three
\* times and lost it at the third read, after resolving the subscriber.
C38_Witness ==
    /\ HasDeadLetterSink(trigger.delivery)
    /\ BrokerLostAt(Len(last.log))
    /\ \E j \in DOMAIN last.log : j > 1 /\ BrokerRead(j, "")
    /\ \E j \in DOMAIN last.log : SubscriberResolvedAt(j)
    /\ ~broker.exists

\* C39: after a Trigger run that marked the dead-letter sink as not
\* configured, the Trigger's status holds no dead-letter address.
C39_NotConfiguredHoldsNoAddress ==
    TriggerRunWithoutDLS => tStatus.deadLetterSinkURI = ""

\* The driver's declarations in the order reconcileUsingLibraries makes them.
DeclareOrder == << RExchange, RDlx, RDlq, RDlqBinding >>

IsDeclare(entry) == entry[1] = "declare"

\* What the calls of log declared, in the order of the calls.
Declared(log) ==
    LET calls == SelectSeq(log, IsDeclare)
    IN  [ i \in DOMAIN calls |-> calls[i][2] ]

\* The condition slot that a failed declaration marks False.
DeclareSlot(name) ==
    IF name = RExchange THEN BrokerConditionExchange
    ELSE IF name \in { RDlx, RDlq } THEN BrokerConditionDLX
    ELSE BrokerConditionDeadLetterSink

\* Call i of log declared name without error.
DeclaredAt(log, i, name) == log[i][1] = "declare" /\ log[i][2] = name /\ log[i][3] = ""

\* C40: in every run of the standalone Broker reconciler, the declarations the
\* run makes are, in this order, the primary Exchange, the dead-letter
\* Exchange, the dead-letter Queue and the dead-letter Binding, starting with
\* the primary Exchange also when an earlier run declared everything; a run
\* that returns no error makes all four; a declaration that fails is the
\* run's last call, the run returns its error and the slot of the declaration
\* is False; and a run turns the DLX slot True only if it declared both the
\* dead-letter Exchange and the dead-letter Queue.
C40_DirectDeclaresInOrder ==
    [][ last'.engine = "Direct" =>
            LET log == last'.log
                n   == Len(Declared(log))
            IN  /\ n <= Len(DeclareOrder)
                /\ Declared(log) = SubSeq(DeclareOrder, 1, n)
                /\ last'.err = "" => n = Len(DeclareOrder)
                /\ \A i \in DOMAIN log :
                       (IsDeclare(log[i]) /\ log[i][3] # "") =>
                           /\ i = Len(log)
                           /\ last'.err = log[i][3]
                           /\ bStatus'.cond[DeclareSlot(log[i][2])] = "False"
                /\ (bStatus.cond[BrokerConditionDLX] # "True"
                    /\ bStatus'.cond[BrokerConditionDLX] = "True")
                       => /\ \E i \in DOMAIN log : DeclaredAt(log, i, RDlx)
                          /\ \E i \in DOMAIN log : DeclaredAt(log, i, RDlq) ]_vars

\* A run that follows a run without a failing call declared all four again.
C40_Witness ==
    /\ last.engine = "Direct"
    /\ last.prior = "clean"
    /\ Declared(last.log) = DeclareOrder
    /\ last.err = ""

====
